---- MODULE Spec2Model ----
(***************************************************************************)
(* A model of tauri-plugin-memio's shared regions: the header codec        *)
(* (memio-core/src/shared_header.rs), the per-platform regions and         *)
(* factories (memio-platform/src/{linux,android,windows}.rs).              *)
(*                                                                         *)
(* A mapped buffer is a function 0..n-1 -> byte.  A u64 is the tuple of    *)
(* its eight base-256 digits, most significant first (the order of the     *)
(* hex literal), so that to_le_bytes / from_le_bytes are real conversions  *)
(* and the 64-bit magic is representable.                                  *)
(***************************************************************************)
EXTENDS Integers, Sequences, FiniteSets, TLC

VARIABLES
    platform,   \* the build target: "linux", "android" or "windows"
    stores,     \* backing objects by id (file / ashmem region / file mapping)
    REGISTRY,   \* the factory's static table, by logical name
    handles,    \* the region handles the caller holds, by slot
    COUNTER,    \* the static name counter
    last,       \* the outcome of the operation that ran last
    ub,         \* TRUE once a handle was used through an unmapped address
    written,    \* bookkeeping: per store, the last write that returned Ok
    writer,     \* the position of the thread inside write()
    reader,     \* the position of the thread inside info(); read(); info()
    published,  \* version -> data of every write the writer started
    entries,    \* the manager's buffers by name (SharedRegistry::entries on
                \* Linux, ACTIVE_REGIONS on Windows, MemioManager::buffers on
                \* Android)
    wait,       \* the position of the thread inside wait_for_change
    now,        \* the monotonic clock, in ticks since wait_for_change began
    shm,        \* the files in /dev/shm, of this and of other processes
    alive,      \* the PIDs that name a running process (/proc/<pid> exists)
    swept,      \* bookkeeping: the sweeps done and what the last one deleted
    arena,      \* the Arena: base, capacity, offset (and the build's profile)
    allocating, \* per thread, its position inside Arena::alloc and its result
    allocated,  \* bookkeeping: the allocations made since the last reset
    mstate,     \* the MemioState: inner value and lock, version, cache, region
    calling,    \* per thread, its position inside a MemioState call
    history,    \* bookkeeping: the writes completed, the versions they got
    codec,      \* a byte buffer and the header call made on it last
    mutex,      \* the thread that holds the manager's lock, or 0
    managing,   \* per thread, its position inside a MemioManager call
    issued,     \* bookkeeping: the writes the manager's callers have made
    registries, \* the SharedRegistry values of the process and their entries
    devshm,     \* the files of /dev/shm by path, with the text of each
    registered, \* linux.rs REGISTRY: the factory's paths by logical name
    rwlocks,    \* the inner, cache and shared_region locks of a MemioState
    locking,    \* per thread, the lock steps its MemioState call has yet to do
    ringfile,   \* the file of a SharedRingBuffer: length, header, data bytes
    ringhandles,\* the SharedRingBuffer values: from create and from open
    ringlast    \* the ring call that ran last, what it returned and touched

vars == <<platform, stores, REGISTRY, handles, COUNTER, last, ub, written,
          writer, reader, published, entries, wait, now, shm, alive, swept,
          arena, allocating, allocated, mstate, calling, history, codec,
          mutex, managing, issued, registries, devshm, registered, rwlocks,
          locking, ringfile, ringhandles, ringlast>>

\* the directory the orphan sweep reads and the process table
sweepVars == <<shm, alive, swept>>

\* the state outside the regions, their factory and their manager
\* the bump allocator and the threads that use it
arenaVars == <<arena, allocating, allocated>>

\* the state container and the threads that call it
stateVars == <<mstate, calling, history>>

\* the buffer the header functions are called on
codecVars == <<codec>>

\* the manager's lock and the threads that call the manager
lockVars == <<mutex, managing, issued>>

\* the registries of one process, their directory and their factory's names
registryVars == <<registries, devshm, registered>>

\* the three locks of a state container and the calls that take them
guardVars == <<rwlocks, locking>>

\* the ring buffer's file and its handles
ringVars == <<ringfile, ringhandles, ringlast>>

extraVars == <<sweepVars, arenaVars, stateVars, codecVars, lockVars, registryVars,
               guardVars, ringVars>>

\* the state of everything but the regions and their factory
auxVars == <<entries, wait, now, extraVars>>

----------------------------------------------------------------------------
(* Bounds of the model *)

MaxCreates == 2
MaxHandles == 2
MaxVersion == 2
MaxCapacity == 2
MaxThreads == 2
MaxRegistries == 2

Names == {"a", "b"}

\* process ids, of one and of two decimal digits
Pids == {1, 2, 12}
ByteVals == {17, 34}
Platforms == {"linux", "android", "windows"}

Capacities == 0..MaxCapacity
Versions == 0..MaxVersion

RECURSIVE SeqsUpTo(_)
SeqsUpTo(n) ==
    IF n = 0 THEN {<<>>}
    ELSE LET shorter == SeqsUpTo(n - 1)
         IN shorter \cup {Append(s, b) : s \in {t \in shorter : Len(t) = n - 1},
                                         b \in ByteVals}

\* every payload up to one byte more than the largest capacity
Payloads == SeqsUpTo(MaxCapacity + 1)

\* the writes the lifecycle specification draws from: two bytes with version
\* 2 (too large for a region of capacity 1) and one byte with version 1
LifecycleWrites == {<<2, <<17, 34>>>>, <<1, <<34>>>>}

\* the writes one writer thread makes in the protocol specification
MaxWrites == 2

\* its payloads: a longer one, a shorter one, one too large for every capacity
ProtocolPayloads == {<<17, 34>>, <<34>>, [i \in 1..(MaxCapacity + 1) |-> 17]}

----------------------------------------------------------------------------
(* memio-core: the generated header constants and the header codec *)

SHARED_STATE_HEADER_SIZE == 64
SHARED_STATE_MAGIC_OFFSET == 0
SHARED_STATE_VERSION_OFFSET == 8
SHARED_STATE_LENGTH_OFFSET == 16

\* 0x545552424F534852
SHARED_STATE_MAGIC == <<84, 85, 82, 66, 79, 83, 72, 82>>

HEADER_SIZE == SHARED_STATE_HEADER_SIZE

\* a small natural as a u64
U64(n) ==
    <<0, 0, 0, 0, (n \div 16777216) % 256, (n \div 65536) % 256,
      (n \div 256) % 256, n % 256>>

\* x < 2^31: the u64 fits the naturals the model computes with
U64Small(x) == x[1] = 0 /\ x[2] = 0 /\ x[3] = 0 /\ x[4] = 0 /\ x[5] < 128

U64ToNat(x) == x[5] * 16777216 + x[6] * 65536 + x[7] * 256 + x[8]

\* x > n for a u64 x and a small natural n
U64Gt(x, n) == ~U64Small(x) \/ U64ToNat(x) > n

\* Variant: the bytes most significant first
to_be_bytes(x) == [i \in 0..7 |-> x[i + 1]]

to_le_bytes(x) == [i \in 0..7 |-> x[8 - i]]

\* Variant: the first byte taken for the most significant
from_be_bytes(b) == [i \in 1..8 |-> b[i - 1]]

from_le_bytes(b) == [i \in 1..8 |-> b[8 - i]]

BufLen(buf) == Cardinality(DOMAIN buf)

ZeroBuf(n) == [i \in 0..(n - 1) |-> 0]

write_u64_le(buf, offset, value) ==
    [i \in DOMAIN buf |->
        IF offset <= i /\ i < offset + 8 THEN to_le_bytes(value)[i - offset]
        ELSE buf[i]]

read_u64_le(buf, offset) == from_le_bytes([i \in 0..7 |-> buf[offset + i]])

validate_magic(buf) ==
    IF BufLen(buf) < SHARED_STATE_HEADER_SIZE THEN FALSE
    ELSE read_u64_le(buf, SHARED_STATE_MAGIC_OFFSET) = SHARED_STATE_MAGIC

\* the buffer after the call; a buffer shorter than the header is left alone
write_header_unchecked(buf, version, length) ==
    IF BufLen(buf) < SHARED_STATE_HEADER_SIZE THEN buf
    ELSE write_u64_le(
             write_u64_le(
                 write_u64_le(buf, SHARED_STATE_MAGIC_OFFSET, SHARED_STATE_MAGIC),
                 SHARED_STATE_VERSION_OFFSET, U64(version)),
             SHARED_STATE_LENGTH_OFFSET, U64(length))

\* the raw-pointer variant: the caller guarantees HEADER_SIZE valid bytes
write_header_ptr(buf, version, length) ==
    write_u64_le(
        write_u64_le(
            write_u64_le(buf, SHARED_STATE_MAGIC_OFFSET, SHARED_STATE_MAGIC),
            SHARED_STATE_VERSION_OFFSET, U64(version)),
        SHARED_STATE_LENGTH_OFFSET, U64(length))

NoHeader == [some |-> FALSE, version |-> 0, length |-> 0]

read_header(buf, capacity) ==
    IF BufLen(buf) < SHARED_STATE_HEADER_SIZE THEN NoHeader
    ELSE IF read_u64_le(buf, SHARED_STATE_MAGIC_OFFSET) # SHARED_STATE_MAGIC
    THEN NoHeader
    ELSE LET version == read_u64_le(buf, SHARED_STATE_VERSION_OFFSET)
             length == read_u64_le(buf, SHARED_STATE_LENGTH_OFFSET)
         IN IF U64Gt(length, capacity) THEN NoHeader
            ELSE [some |-> TRUE, version |-> U64ToNat(version),
                  length |-> U64ToNat(length)]

\* read_header with the version in its full width, as the eight digits of the
\* u64; the length has passed length > capacity and is small
read_header_u64(buf, capacity) ==
    IF BufLen(buf) < SHARED_STATE_HEADER_SIZE THEN NoHeader
    ELSE IF read_u64_le(buf, SHARED_STATE_MAGIC_OFFSET) # SHARED_STATE_MAGIC
    THEN NoHeader
    ELSE LET version == read_u64_le(buf, SHARED_STATE_VERSION_OFFSET)
             length == read_u64_le(buf, SHARED_STATE_LENGTH_OFFSET)
         IN IF U64Gt(length, capacity) THEN NoHeader
            ELSE [some |-> TRUE, version |-> version, length |-> U64ToNat(length)]

\* write_header: Ok(()) and the buffer after the call, or the error and the
\* buffer as it was; version is a u64 in full width
write_header(buf, version, length) ==
    IF BufLen(buf) < SHARED_STATE_HEADER_SIZE THEN [ok |-> FALSE, buf |-> buf]
    ELSE [ok |-> TRUE,
          buf |-> write_u64_le(
                      write_u64_le(
                          write_u64_le(buf, SHARED_STATE_MAGIC_OFFSET,
                                       SHARED_STATE_MAGIC),
                          SHARED_STATE_VERSION_OFFSET, version),
                      SHARED_STATE_LENGTH_OFFSET, U64(length))]

\* no buffer allocated yet
NoBuffer == [built |-> FALSE, buf |-> <<>>, op |-> "-", ok |-> FALSE,
             version |-> <<>>, length |-> 0, capacity |-> 0]

read_header_ptr(buf, capacity) ==
    IF read_u64_le(buf, SHARED_STATE_MAGIC_OFFSET) # SHARED_STATE_MAGIC
    THEN NoHeader
    ELSE LET version == read_u64_le(buf, SHARED_STATE_VERSION_OFFSET)
             length == read_u64_le(buf, SHARED_STATE_LENGTH_OFFSET)
         IN IF U64Gt(length, capacity) THEN NoHeader
            ELSE [some |-> TRUE, version |-> U64ToNat(version),
                  length |-> U64ToNat(length)]

----------------------------------------------------------------------------
(* The region operations on a mapped buffer, shared by the three platforms *)

\* copy_from_slice / copy_nonoverlapping of data to the payload area
CopyIn(buf, data) ==
    [i \in DOMAIN buf |->
        IF HEADER_SIZE <= i /\ i < HEADER_SIZE + Len(data)
        THEN data[i - HEADER_SIZE + 1]
        ELSE buf[i]]

\* a fresh vector of the first `length` payload bytes
CopyOut(buf, length) == [i \in 1..length |-> buf[HEADER_SIZE + i - 1]]

NoInfo == [version |-> 0, length |-> 0, capacity |-> 0]

WriteOk(buf, version, length, capacity) ==
    [ok |-> TRUE, err |-> "", buf |-> buf,
     info |-> [version |-> version, length |-> length, capacity |-> capacity]]

\* Err(DataTooLarge { data_len, capacity }); info carries the two fields
TooLargeErr(buf, data_len, capacity) ==
    [ok |-> FALSE, err |-> "DataTooLarge", buf |-> buf,
     info |-> [version |-> 0, length |-> data_len, capacity |-> capacity]]

\* Variant: the bound check is off by one and lets capacity + 1 bytes through
TooLargeOffByOne(data, capacity) == Len(data) > capacity + 1

\* data.len() > self.capacity
TooLarge(data, capacity) == Len(data) > capacity

InfoOk(hd, capacity) ==
    [ok |-> TRUE, err |-> "",
     info |-> [version |-> hd.version, length |-> hd.length, capacity |-> capacity]]

InfoErr(e) == [ok |-> FALSE, err |-> e, info |-> NoInfo]

ReadOk(data) == [ok |-> TRUE, err |-> "", data |-> data]

ReadErr(e) == [ok |-> FALSE, err |-> e, data |-> <<>>]

\* the first HEADER_SIZE bytes, as slice::from_raw_parts(ptr, HEADER_SIZE)
HeaderSlice(buf) == [i \in 0..(HEADER_SIZE - 1) |-> buf[i]]

\* the buffer with its first HEADER_SIZE bytes replaced by the slice
WithHeaderSlice(buf, slice) ==
    [i \in DOMAIN buf |-> IF i < HEADER_SIZE THEN slice[i] ELSE buf[i]]

(* LinuxSharedMemoryRegion *)

linux_info(mmap, capacity) ==
    LET hd == read_header(mmap, capacity)
    IN IF hd.some THEN InfoOk(hd, capacity) ELSE InfoErr("InvalidHeader")

linux_write(mmap, capacity, version, data) ==
    IF TooLarge(data, capacity) THEN TooLargeErr(mmap, Len(data), capacity)
    ELSE WriteOk(write_header_unchecked(CopyIn(mmap, data), version, Len(data)),
                 version, Len(data), capacity)

\* Variant: read returns the whole payload area instead of the first
\* `length` bytes, so a stale tail of an earlier longer write shows through
linux_read_whole(mmap, capacity) ==
    LET hd == read_header(mmap, capacity)
    IN IF hd.some THEN ReadOk(CopyOut(mmap, capacity))
       ELSE ReadErr("InvalidHeader")

linux_read(mmap, capacity) ==
    LET hd == read_header(mmap, capacity)
    IN IF hd.some THEN ReadOk(CopyOut(mmap, hd.length))
       ELSE ReadErr("InvalidHeader")

(* AndroidSharedMemoryRegion *)

android_info(mem, capacity) ==
    LET hd == read_header_ptr(mem, capacity)
    IN IF hd.some THEN InfoOk(hd, capacity) ELSE InfoErr("InvalidHeader")

android_write(mem, capacity, version, data) ==
    IF TooLarge(data, capacity) THEN TooLargeErr(mem, Len(data), capacity)
    ELSE WriteOk(write_header_ptr(CopyIn(mem, data), version, Len(data)),
                 version, Len(data), capacity)

android_read(mem, capacity) ==
    LET hd == read_header_ptr(mem, capacity)
    IN IF hd.some THEN ReadOk(CopyOut(mem, hd.length))
       ELSE ReadErr("InvalidHeader")

(* WindowsSharedMemoryRegion *)

windows_info(view, capacity) ==
    LET hd == read_header(HeaderSlice(view), capacity)
    IN IF hd.some THEN InfoOk(hd, capacity) ELSE InfoErr("InvalidHeader")

windows_write(view, capacity, version, data) ==
    IF TooLarge(data, capacity) THEN TooLargeErr(view, Len(data), capacity)
    ELSE LET copied == CopyIn(view, data)
         IN WriteOk(WithHeaderSlice(copied,
                        write_header_unchecked(HeaderSlice(copied), version, Len(data))),
                    version, Len(data), capacity)

windows_read(view, capacity) ==
    LET hd == read_header(HeaderSlice(view), capacity)
    IN IF hd.some THEN ReadOk(CopyOut(view, hd.length))
       ELSE ReadErr("InvalidHeader")

(* The trait object: the platform's implementation of each operation *)

region_info(p, buf, capacity) ==
    CASE p = "linux" -> linux_info(buf, capacity)
      [] p = "android" -> android_info(buf, capacity)
      [] OTHER -> windows_info(buf, capacity)

region_write(p, buf, capacity, version, data) ==
    CASE p = "linux" -> linux_write(buf, capacity, version, data)
      [] p = "android" -> android_write(buf, capacity, version, data)
      [] OTHER -> windows_write(buf, capacity, version, data)

region_read(p, buf, capacity) ==
    CASE p = "linux" -> linux_read(buf, capacity)
      [] p = "android" -> android_read(buf, capacity)
      [] OTHER -> windows_read(buf, capacity)

----------------------------------------------------------------------------
(* The factories: create, open, remove, and the handles' Drop *)

NoHandle == [name |-> "", store |-> 0, capacity |-> 0, owns |-> FALSE, origin |-> "none"]

NoEntry == [store |-> 0, capacity |-> 0]

NoWrite == [version |-> 0, data |-> <<>>]

Slots == 1..MaxHandles

Live(slot) == handles[slot] # NoHandle

HasFreeSlot == \E s \in Slots : ~Live(s)

\* the lowest free slot: which slot a new handle takes is immaterial
FreeSlot == CHOOSE s \in Slots : ~Live(s) /\ \A t \in Slots : t < s => Live(t)

\* len: the data length passed to a write, 0 for every other operation;
\* info: what a write returned (the SharedStateInfo, or the error's fields);
\* was: the handle a drop destroyed
Outcome(op, ok, err, h, len) ==
    [op |-> op, ok |-> ok, err |-> err, h |-> h, len |-> len,
     info |-> NoInfo, was |-> NoHandle]

WriteOutcome(r, h, len) ==
    [op |-> "write", ok |-> r.ok, err |-> r.err, h |-> h, len |-> len,
     info |-> r.info, was |-> NoHandle]

DropOutcome(slot) ==
    [op |-> "drop", ok |-> TRUE, err |-> "", h |-> slot, len |-> 0,
     info |-> NoInfo, was |-> handles[slot]]

Failed(op, err) ==
    /\ last' = Outcome(op, FALSE, err, 0, 0)
    /\ UNCHANGED <<stores, REGISTRY, handles, COUNTER, written>>

LifecycleFrame == UNCHANGED <<platform, ub, writer, reader, published, auxVars>>

(* linux.rs *)

\* generate_path: the file name carries COUNTER.fetch_add(1); paths are store ids
generate_path == COUNTER + 1

\* a backing object as create makes it: its OS name embeds the logical name;
\* removed is bookkeeping, TRUE once remove(name) was called on the region
FreshStore(name, mem, refs) ==
    [bytes |-> mem, linked |-> TRUE, mapped |-> TRUE, refs |-> refs,
     name |-> name, removed |-> FALSE]

\* the outcome of remove(name)
RemoveOutcome(name, ok, err) ==
    [op |-> "remove", ok |-> ok, err |-> err, h |-> 0, len |-> 0,
     info |-> NoInfo, was |-> [NoHandle EXCEPT !.name = name]]

linux_open_or_create(op, name, path, capacity, create) ==
    LET file_len == HEADER_SIZE + capacity
        opened == create \/ stores[path].linked
        file == IF create THEN ZeroBuf(file_len) ELSE stores[path].bytes
        mmap == IF create THEN write_header_unchecked(file, 0, 0) ELSE file
    IN IF ~opened THEN Failed(op, "OpenFailed")
       ELSE IF ~create /\ ~validate_magic(mmap) THEN Failed(op, "InvalidHeader")
       ELSE /\ stores' = IF create
                         THEN Append(stores, FreshStore(name, mmap, 0))
                         ELSE stores
            /\ written' = IF create THEN Append(written, NoWrite) ELSE written
            /\ COUNTER' = IF create THEN COUNTER + 1 ELSE COUNTER
            /\ REGISTRY' = [REGISTRY EXCEPT ![name] = [store |-> path, capacity |-> 0]]
            /\ handles' = [handles EXCEPT ![FreeSlot] =
                              [name |-> name, store |-> path, capacity |-> capacity,
                               owns |-> FALSE, origin |-> op]]
            /\ last' = Outcome(op, TRUE, "", FreeSlot, 0)

LinuxCreate(name, capacity) ==
    /\ platform = "linux" /\ ~ub
    /\ IF capacity = 0 THEN Failed("create", "InvalidCapacity")
       ELSE /\ COUNTER < MaxCreates /\ HasFreeSlot
            /\ linux_open_or_create("create", name, generate_path, capacity, TRUE)
    /\ LifecycleFrame

\* Variant: open takes the whole file length for the capacity
LinuxOpenWholeFile(name) ==
    /\ platform = "linux" /\ ~ub
    /\ HasFreeSlot
    /\ LET path == REGISTRY[name].store
       IN IF path = 0 THEN Failed("open", "NotFound")
          ELSE IF ~stores[path].linked THEN Failed("open", "OpenFailed")
          ELSE LET file_len == BufLen(stores[path].bytes)
               IN IF file_len < HEADER_SIZE THEN Failed("open", "InvalidHeader")
                  ELSE linux_open_or_create("open", name, path, file_len, FALSE)
    /\ LifecycleFrame

LinuxOpen(name) ==
    /\ platform = "linux" /\ ~ub
    /\ HasFreeSlot
    /\ LET path == REGISTRY[name].store
       IN IF path = 0 THEN Failed("open", "NotFound")
          ELSE IF ~stores[path].linked THEN Failed("open", "OpenFailed")
          ELSE LET file_len == BufLen(stores[path].bytes)
               IN IF file_len < HEADER_SIZE THEN Failed("open", "InvalidHeader")
                  ELSE linux_open_or_create("open", name, path,
                                            file_len - HEADER_SIZE, FALSE)
    /\ LifecycleFrame

\* Drop removes the backing file: self.path.exists(), for every handle
linux_drop_unlinks(h) == stores[h.store].linked

LinuxDrop(slot) ==
    /\ platform = "linux" /\ ~ub
    /\ Live(slot)
    /\ LET h == handles[slot]
       IN /\ stores' = IF linux_drop_unlinks(h)
                       THEN [stores EXCEPT ![h.store].linked = FALSE]
                       ELSE stores
          /\ REGISTRY' = [REGISTRY EXCEPT ![h.name] = NoEntry]
    /\ handles' = [handles EXCEPT ![slot] = NoHandle]
    /\ last' = DropOutcome(slot)
    /\ UNCHANGED <<COUNTER, written>>
    /\ LifecycleFrame

LinuxRemove(name) ==
    /\ platform = "linux" /\ ~ub
    /\ LET path == REGISTRY[name].store
       IN IF path = 0
          THEN /\ last' = RemoveOutcome(name, FALSE, "NotFound")
               /\ UNCHANGED <<stores, REGISTRY, handles, COUNTER, written>>
          ELSE /\ REGISTRY' = [REGISTRY EXCEPT ![name] = NoEntry]
               /\ IF stores[path].linked
                  THEN /\ stores' = [stores EXCEPT ![path].linked = FALSE,
                                                   ![path].removed = TRUE]
                       /\ last' = RemoveOutcome(name, TRUE, "")
                  ELSE /\ stores' = [stores EXCEPT ![path].removed = TRUE]
                       /\ last' = RemoveOutcome(name, FALSE, "Io")
               /\ UNCHANGED <<handles, COUNTER, written>>
    /\ LifecycleFrame

(* android.rs, built for target_os = "android" *)

\* Drop of the region a REGISTRY entry holds (fd >= 0): munmap and close
android_drop_owner(ss, entry) ==
    IF entry = NoEntry THEN ss ELSE [ss EXCEPT ![entry.store].mapped = FALSE]

\* bookkeeping: remove(name) was called on the region the entry names
MarkRemoved(ss, entry) ==
    IF entry = NoEntry THEN ss ELSE [ss EXCEPT ![entry.store].removed = TRUE]

AndroidCreate(name, capacity) ==
    /\ platform = "android" /\ ~ub
    /\ IF capacity = 0 THEN Failed("create", "InvalidCapacity")
       ELSE /\ COUNTER < MaxCreates /\ HasFreeSlot
            /\ LET total_size == HEADER_SIZE + capacity
                   ptr == COUNTER + 1
                   mem == write_header_ptr(ZeroBuf(total_size), 0, 0)
               IN /\ stores' = Append(android_drop_owner(stores, REGISTRY[name]),
                                      FreshStore(name, mem, 0))
                  /\ written' = Append(written, NoWrite)
                  /\ COUNTER' = COUNTER + 1
                  /\ REGISTRY' = [REGISTRY EXCEPT ![name] =
                                     [store |-> ptr, capacity |-> capacity]]
                  /\ handles' = [handles EXCEPT ![FreeSlot] =
                                    [name |-> name, store |-> ptr, capacity |-> capacity,
                                     owns |-> FALSE, origin |-> "create"]]
                  /\ last' = Outcome("create", TRUE, "", FreeSlot, 0)
    /\ LifecycleFrame

AndroidOpen(name) ==
    /\ platform = "android" /\ ~ub
    /\ HasFreeSlot
    /\ LET region == REGISTRY[name]
       IN IF region = NoEntry THEN Failed("open", "NotFound")
          ELSE /\ handles' = [handles EXCEPT ![FreeSlot] =
                                 [name |-> name, store |-> region.store,
                                  capacity |-> region.capacity,
                                  owns |-> FALSE, origin |-> "open"]]
               /\ last' = Outcome("open", TRUE, "", FreeSlot, 0)
               /\ UNCHANGED <<stores, REGISTRY, COUNTER, written>>
    /\ LifecycleFrame

\* Drop unmaps and closes: self.fd >= 0, the region REGISTRY holds
android_drop_unmaps(h) == h.owns

AndroidDrop(slot) ==
    /\ platform = "android" /\ ~ub
    /\ Live(slot)
    /\ stores' = IF android_drop_unmaps(handles[slot])
                 THEN [stores EXCEPT ![handles[slot].store].mapped = FALSE]
                 ELSE stores
    /\ handles' = [handles EXCEPT ![slot] = NoHandle]
    /\ last' = DropOutcome(slot)
    /\ UNCHANGED <<REGISTRY, COUNTER, written>>
    /\ LifecycleFrame

AndroidRemove(name) ==
    /\ platform = "android" /\ ~ub
    /\ IF REGISTRY[name] = NoEntry
       THEN /\ last' = RemoveOutcome(name, FALSE, "NotFound")
            /\ UNCHANGED <<stores, REGISTRY, handles, COUNTER, written>>
       ELSE /\ stores' = MarkRemoved(android_drop_owner(stores, REGISTRY[name]),
                                     REGISTRY[name])
            /\ REGISTRY' = [REGISTRY EXCEPT ![name] = NoEntry]
            /\ last' = RemoveOutcome(name, TRUE, "")
            /\ UNCHANGED <<handles, COUNTER, written>>
    /\ LifecycleFrame

(* windows.rs *)

WindowsCreate(name, capacity) ==
    /\ platform = "windows" /\ ~ub
    /\ COUNTER < MaxCreates /\ HasFreeSlot
    /\ LET total_size == HEADER_SIZE + capacity
           mapping_name == COUNTER + 1
           zeroed == ZeroBuf(total_size)
           view == WithHeaderSlice(zeroed,
                       write_header_unchecked(HeaderSlice(zeroed), 0, 0))
       IN /\ stores' = Append(stores, FreshStore(name, view, 1))
          /\ written' = Append(written, NoWrite)
          /\ COUNTER' = COUNTER + 1
          /\ REGISTRY' = [REGISTRY EXCEPT ![name] =
                             [store |-> mapping_name, capacity |-> capacity]]
          /\ handles' = [handles EXCEPT ![FreeSlot] =
                            [name |-> name, store |-> mapping_name,
                             capacity |-> capacity, owns |-> TRUE, origin |-> "create"]]
          /\ last' = Outcome("create", TRUE, "", FreeSlot, 0)
    /\ LifecycleFrame

WindowsOpen(name) ==
    /\ platform = "windows" /\ ~ub
    /\ HasFreeSlot
    /\ LET entry == REGISTRY[name]
       IN IF entry = NoEntry THEN Failed("open", "NotFound")
          ELSE IF stores[entry.store].refs = 0 THEN Failed("open", "OpenFailed")
          ELSE /\ stores' = [stores EXCEPT ![entry.store].refs = @ + 1]
               /\ handles' = [handles EXCEPT ![FreeSlot] =
                                 [name |-> name, store |-> entry.store,
                                  capacity |-> entry.capacity,
                                  owns |-> FALSE, origin |-> "open"]]
               /\ last' = Outcome("open", TRUE, "", FreeSlot, 0)
               /\ UNCHANGED <<REGISTRY, COUNTER, written>>
    /\ LifecycleFrame

\* Drop retires the region's name: self.owns_handle
windows_drop_retires(h) == h.owns

WindowsDrop(slot) ==
    /\ platform = "windows" /\ ~ub
    /\ Live(slot)
    /\ LET h == handles[slot]
       IN /\ stores' = [stores EXCEPT ![h.store].refs = @ - 1]
          /\ REGISTRY' = IF windows_drop_retires(h) THEN [REGISTRY EXCEPT ![h.name] = NoEntry]
                         ELSE REGISTRY
          \* ACTIVE_REGIONS.remove(name) beside REGISTRY.remove(name)
          /\ entries' = IF windows_drop_retires(h) THEN [entries EXCEPT ![h.name] = NoHandle]
                        ELSE entries
    /\ handles' = [handles EXCEPT ![slot] = NoHandle]
    /\ last' = DropOutcome(slot)
    /\ UNCHANGED <<COUNTER, written>>
    /\ UNCHANGED <<platform, ub, writer, reader, published, wait, now, extraVars>>

\* remove(name) forgets the name in REGISTRY and in ACTIVE_REGIONS and
\* answers Ok whether or not the name was there; it closes nothing
WindowsRemove(name) ==
    /\ platform = "windows" /\ ~ub
    /\ REGISTRY' = [REGISTRY EXCEPT ![name] = NoEntry]
    /\ entries' = [entries EXCEPT ![name] = NoHandle]
    /\ stores' = MarkRemoved(stores, REGISTRY[name])
    /\ last' = RemoveOutcome(name, TRUE, "")
    /\ UNCHANGED <<handles, COUNTER, written>>
    /\ UNCHANGED <<platform, ub, writer, reader, published, wait, now, extraVars>>

(* SharedMemoryRegion::write through a handle the caller holds *)

\* the handle's address range is still mapped (only Android ever unmaps a
\* range a live handle points at)
Mapped(h) == stores[h.store].mapped

Write(slot, version, data) ==
    /\ ~ub
    /\ Live(slot)
    /\ LET h == handles[slot]
       IN IF ~Mapped(h)
          THEN /\ ub' = TRUE
               /\ last' = Outcome("write", FALSE, "unmapped", slot, Len(data))
               /\ UNCHANGED <<stores, written>>
          ELSE LET r == region_write(platform, stores[h.store].bytes, h.capacity,
                                     version, data)
               IN /\ stores' = [stores EXCEPT ![h.store].bytes = r.buf]
                  /\ written' = IF r.ok
                                THEN [written EXCEPT ![h.store] =
                                         [version |-> version, data |-> data]]
                                ELSE written
                  /\ last' = WriteOutcome(r, slot, Len(data))
                  /\ ub' = ub
    /\ UNCHANGED <<platform, REGISTRY, handles, COUNTER, writer, reader, published,
                   auxVars>>

----------------------------------------------------------------------------
(* The lifecycle specification: one process, one factory, sequential calls *)

Idle == [pc |-> "idle"]

\* std::process::id() of the process the model follows
SelfPid == CHOOSE p \in Pids : \A q \in Pids : p <= q

NoSweep == [n |-> 0, deleted |-> {}]

\* threads that share one arena
Threads == 1..MaxThreads

\* a thread outside every MemioManager call, with the result of its last one
NotManaging ==
    [op |-> "-", pc |-> "idle", store |-> 0, capacity |-> 0, version |-> 0,
     data |-> <<>>, pending |-> {}, length |-> 0, calls |-> 0,
     result |-> [op |-> "-", ok |-> FALSE, err |-> "", store |-> 0, version |-> 0,
                 data |-> <<>>]]

\* no Arena::new yet
NoArena == [built |-> FALSE, base |-> 0, capacity |-> 0, offset |-> 0,
            overflow_checks |-> FALSE]

NoResult == [kind |-> "-", addr |-> 0]

NoCache == [some |-> FALSE, version |-> 0, bytes |-> <<>>]

\* shared_region: None
NoRegion == [some |-> FALSE, capacity |-> 0, version |-> 0, data |-> <<>>]

\* no MemioState::new yet
NoState == [built |-> FALSE, value |-> 0, version |-> 0, writer |-> 0,
            poisoned |-> FALSE, cache |-> NoCache, region |-> NoRegion]

NoReturn == [kind |-> "-", err |-> "", version |-> 0, bytes |-> <<>>, hit |-> FALSE]

\* no write has completed; held is the value the container held when its
\* version became 0, 1, 2, ...
\* prev is the answer of the last to_bytes_cached call during and after which
\* no write has run
NoPrev == [some |-> FALSE, kind |-> "-", version |-> 0, bytes |-> <<>>]

NoHistory == [completed |-> 0, obtained |-> <<>>, held |-> <<>>, prev |-> NoPrev]

\* clean, after and entry are bookkeeping: no write has run since the call
\* began, the answer of the call before it, version() when write took the
\* lock, and whether the call began after the lock was poisoned
NotCalling == [op |-> "-", pc |-> "idle", version |-> 0, bytes |-> <<>>,
               calls |-> 0, result |-> NoReturn, clean |-> FALSE, after |-> NoPrev,
               entry |-> 0, late |-> FALSE]

\* the SharedRegistry values one process builds
RegistryIds == 1..MaxRegistries

\* no SharedRegistry::new yet; entries is the HashMap as a set of members
NoRegistry == [state |-> "none", manifest_path |-> <<>>, entries |-> {}]

\* an RwLock nobody holds
Unheld == [writer |-> 0, readers |-> {}]

\* no MemioState yet; bound: shared_region holds Some(region)
NoLocks == [built |-> FALSE, bound |-> FALSE, inner |-> Unheld, cache |-> Unheld,
            shared_region |-> Unheld]

\* a thread outside every call; todo is what a call has yet to do
NotLocking == [op |-> "-", todo |-> <<>>, calls |-> 0]

\* no ring file yet; data is the file's bytes from data_offset on, beyond
\* is TRUE once a copy has touched bytes past the end of the mapped file
NoRingFile == [exists |-> FALSE, len |-> 0, magic |-> <<>>, capacity |-> 0,
               head |-> 0, tail |-> 0, data |-> <<>>, beyond |-> FALSE]

\* the handle SharedRingBuffer::create returns and one from ::open
RingHandles == {"create", "open"}

NoRing == [some |-> FALSE, data_offset |-> 0, capacity |-> 0]

NoRingCall == [op |-> "-", h |-> "-", n |-> 0, pos |-> 0, touched |-> {}, out |-> <<>>]

NotAllocating ==
    [pc |-> "idle", size |-> 0, align |-> 0, current |-> 0, aligned |-> 0,
     new_offset |-> 0, calls |-> 0, result |-> NoResult]

Init ==
    /\ platform \in Platforms
    /\ stores = <<>>
    /\ REGISTRY = [n \in Names |-> NoEntry]
    /\ handles = [s \in Slots |-> NoHandle]
    /\ COUNTER = 0
    /\ last = Outcome("init", TRUE, "", 0, 0)
    /\ ub = FALSE
    /\ written = <<>>
    /\ writer = Idle
    /\ reader = Idle
    /\ published = <<>>
    /\ entries = [n \in Names |-> NoHandle]
    /\ wait = Idle
    /\ now = 0
    /\ shm = {}
    /\ alive = {SelfPid}
    /\ swept = NoSweep
    /\ arena = NoArena
    /\ allocating = [t \in Threads |-> NotAllocating]
    /\ allocated = {}
    /\ mstate = NoState
    /\ calling = [t \in Threads |-> NotCalling]
    /\ history = NoHistory
    /\ codec = NoBuffer
    /\ mutex = 0
    /\ managing = [t \in Threads |-> NotManaging]
    /\ issued = {}
    /\ registries = [r \in RegistryIds |-> NoRegistry]
    /\ devshm = {}
    /\ registered = {}
    /\ rwlocks = NoLocks
    /\ locking = [t \in Threads |-> NotLocking]
    /\ ringfile = NoRingFile
    /\ ringhandles = [h \in RingHandles |-> NoRing]
    /\ ringlast = NoRingCall

Next ==
    \/ \E name \in Names, capacity \in Capacities : LinuxCreate(name, capacity)
    \/ \E name \in Names : LinuxOpen(name)
    \/ \E slot \in Slots : LinuxDrop(slot)
    \/ \E name \in Names : LinuxRemove(name)
    \/ \E name \in Names, capacity \in Capacities : AndroidCreate(name, capacity)
    \/ \E name \in Names : AndroidOpen(name)
    \/ \E slot \in Slots : AndroidDrop(slot)
    \/ \E name \in Names : AndroidRemove(name)
    \/ \E name \in Names, capacity \in Capacities : WindowsCreate(name, capacity)
    \/ \E name \in Names : WindowsOpen(name)
    \/ \E slot \in Slots : WindowsDrop(slot)
    \/ \E name \in Names : WindowsRemove(name)
    \/ \E slot \in Slots, w \in LifecycleWrites : Write(slot, w[1], w[2])

Spec == Init /\ [][Next]_vars

----------------------------------------------------------------------------
(* The write specification: one region of any capacity on any platform,    *)
(* created by the factory, then written with every version and payload     *)

NextWrites ==
    \/ \E capacity \in Capacities : COUNTER = 0 /\ LinuxCreate("a", capacity)
    \/ \E capacity \in Capacities : COUNTER = 0 /\ AndroidCreate("a", capacity)
    \/ \E capacity \in Capacities : COUNTER = 0 /\ WindowsCreate("a", capacity)
    \/ \E slot \in Slots, version \in Versions, data \in Payloads :
           Write(slot, version, data)

SpecWrites == Init /\ [][NextWrites]_vars

----------------------------------------------------------------------------
(* The publish/poll protocol: write() and info(); read(); info() as the    *)
(* steps another thread or process observes through its own mapping.       *)
(*                                                                         *)
(* write() is: the capacity check, the copy of data into the payload area, *)
(* on Android fence(Release), then the three header stores.  All stores    *)
(* are plain.  Stores that no fence separates may reach another observer   *)
(* in any order; with the fence every payload store precedes every header  *)
(* store.  A header field is one aligned 64-bit store.                     *)

\* the creator's handle takes the first slot, the handle from open the next
WriterSlot == CHOOSE s \in Slots : \A t \in Slots : s <= t
ReaderSlot == WriterSlot + 1

\* the stores of one write(version, data), in program order
PayloadStores(data) == {<<"payload", i>> : i \in 1..Len(data)}
HeaderStores == {<<"magic", 0>>, <<"version", 0>>, <<"length", 0>>}
WriteStores(data) == PayloadStores(data) \cup HeaderStores

\* fence(Ordering::Release) stands between the copy and the header stores
Fenced(p) == p = "android"

\* the store may be the next one another observer sees
MayLand(p, st, pending) ==
    Fenced(p) /\ st \in HeaderStores => pending \cap {<<"payload", i>> : i \in 1..(MaxCapacity + 1)} = {}

ApplyStore(buf, st, version, data) ==
    CASE st[1] = "payload" -> [buf EXCEPT ![HEADER_SIZE + st[2] - 1] = data[st[2]]]
      [] st[1] = "magic" -> write_u64_le(buf, SHARED_STATE_MAGIC_OFFSET, SHARED_STATE_MAGIC)
      [] st[1] = "version" -> write_u64_le(buf, SHARED_STATE_VERSION_OFFSET, U64(version))
      [] OTHER -> write_u64_le(buf, SHARED_STATE_LENGTH_OFFSET, U64(Len(data)))

ProtocolFrame == UNCHANGED <<platform, REGISTRY, handles, COUNTER, ub, auxVars>>

\* write(version, data) up to the capacity check; the writer stamps
\* strictly increasing versions 1, 2, ...
WriteBegin(data) ==
    /\ writer.pc = "idle"
    /\ Live(WriterSlot)
    /\ Len(published) < MaxWrites
    /\ LET h == handles[WriterSlot]
           version == Len(published) + 1
       IN IF TooLarge(data, h.capacity)
          THEN /\ last' = WriteOutcome(TooLargeErr(<<>>, Len(data), h.capacity),
                                       WriterSlot, Len(data))
               /\ UNCHANGED <<writer, published>>
          ELSE /\ writer' = [pc |-> "storing", version |-> version, data |-> data,
                             pending |-> WriteStores(data)]
               /\ published' = Append(published, data)
               /\ last' = last
    /\ UNCHANGED <<stores, written, reader>>
    /\ ProtocolFrame

\* one store of the write in progress reaches the shared pages
WriteStore(st) ==
    /\ writer.pc = "storing"
    /\ st \in writer.pending
    /\ MayLand(platform, st, writer.pending)
    /\ LET h == handles[WriterSlot]
       IN stores' = [stores EXCEPT ![h.store].bytes =
                        ApplyStore(@, st, writer.version, writer.data)]
    /\ writer' = [writer EXCEPT !.pending = @ \ {st}]
    /\ UNCHANGED <<last, written, reader, published>>
    /\ ProtocolFrame

\* write() returns Ok(info)
WriteEnd ==
    /\ writer.pc = "storing"
    /\ writer.pending = {}
    /\ writer' = Idle
    /\ written' = [written EXCEPT ![handles[WriterSlot].store] =
                      [version |-> writer.version, data |-> writer.data]]
    /\ last' = WriteOutcome(WriteOk(<<>>, writer.version, Len(writer.data),
                                    handles[WriterSlot].capacity),
                            WriterSlot, Len(writer.data))
    /\ UNCHANGED <<stores, reader, published>>
    /\ ProtocolFrame

ReaderBuf == stores[handles[ReaderSlot].store].bytes

ReaderAt(pc, v1, rv, len, buf, v2) ==
    [pc |-> pc, v1 |-> v1, rv |-> rv, len |-> len, buf |-> buf, v2 |-> v2]

\* info(): the first load of the header
ReadInfo1 ==
    /\ reader.pc \in {"idle", "done", "failed"}
    /\ Live(ReaderSlot)
    /\ LET r == region_info(platform, ReaderBuf, handles[ReaderSlot].capacity)
       IN reader' = IF r.ok THEN ReaderAt("read", r.info.version, 0, 0, <<>>, 0)
                    ELSE ReaderAt("failed", 0, 0, 0, <<>>, 0)
    /\ UNCHANGED <<stores, last, written, writer, published>>
    /\ ProtocolFrame

\* read(): its own load of the header
ReadHeader ==
    /\ reader.pc = "read"
    /\ LET r == region_info(platform, ReaderBuf, handles[ReaderSlot].capacity)
       IN reader' = IF ~r.ok THEN ReaderAt("failed", 0, 0, 0, <<>>, 0)
                    ELSE ReaderAt(IF r.info.length = 0 THEN "info2" ELSE "copy",
                                  reader.v1, r.info.version, r.info.length, <<>>, 0)
    /\ UNCHANGED <<stores, last, written, writer, published>>
    /\ ProtocolFrame

\* read(): the copy of `length` payload bytes, a byte at a time
ReadCopy ==
    /\ reader.pc = "copy"
    /\ LET buf == Append(reader.buf, ReaderBuf[HEADER_SIZE + Len(reader.buf)])
       IN reader' = [reader EXCEPT !.buf = buf,
                                   !.pc = IF Len(buf) = reader.len THEN "info2" ELSE "copy"]
    /\ UNCHANGED <<stores, last, written, writer, published>>
    /\ ProtocolFrame

\* info() again: the re-load of the version
ReadInfo2 ==
    /\ reader.pc = "info2"
    /\ LET r == region_info(platform, ReaderBuf, handles[ReaderSlot].capacity)
       IN reader' = IF r.ok THEN [reader EXCEPT !.pc = "done", !.v2 = r.info.version]
                    ELSE ReaderAt("failed", 0, 0, 0, <<>>, 0)
    /\ UNCHANGED <<stores, last, written, writer, published>>
    /\ ProtocolFrame

NextConc ==
    \/ \E capacity \in Capacities : COUNTER = 0 /\ LinuxCreate("a", capacity)
    \/ \E capacity \in Capacities : COUNTER = 0 /\ AndroidCreate("a", capacity)
    \/ \E capacity \in Capacities : COUNTER = 0 /\ WindowsCreate("a", capacity)
    \/ platform = "linux" /\ ~Live(ReaderSlot) /\ LinuxOpen("a")
    \/ platform = "android" /\ ~Live(ReaderSlot) /\ AndroidOpen("a")
    \/ platform = "windows" /\ ~Live(ReaderSlot) /\ WindowsOpen("a")
    \/ \E data \in ProtocolPayloads : WriteBegin(data)
    \/ \E st \in WriteStores([i \in 1..(MaxCapacity + 1) |-> 0]) : WriteStore(st)
    \/ WriteEnd
    \/ ReadInfo1
    \/ ReadHeader
    \/ ReadCopy
    \/ ReadInfo2

SpecConc == Init /\ [][NextConc]_vars

----------------------------------------------------------------------------
(* memio_manager.rs over registry.rs (Linux), android.rs and windows.rs:   *)
(* one MemioManager, its calls serialized by the mutex each of them takes  *)

ManagerFrame ==
    UNCHANGED <<platform, handles, ub, writer, reader, published, wait, now,
                extraVars>>

Region(name, store, capacity, owns) ==
    [name |-> name, store |-> store, capacity |-> capacity, owns |-> owns,
     origin |-> "create"]

ManagerFailed(op, err) ==
    /\ last' = Outcome(op, FALSE, err, 0, 0)
    /\ UNCHANGED <<stores, REGISTRY, COUNTER, written, entries>>

\* MemioManager::create_buffer on Linux: SharedRegistry::create_buffer, whose
\* entries.insert drops the region it replaces
LinuxCreateBuffer(name, capacity) ==
    /\ platform = "linux" /\ ~ub
    /\ IF capacity = 0 THEN ManagerFailed("create_buffer", "InvalidCapacity")
       ELSE /\ COUNTER < MaxCreates
            /\ LET path == generate_path
                   mmap == write_header_unchecked(ZeroBuf(HEADER_SIZE + capacity), 0, 0)
                   created == Append(stores, FreshStore(name, mmap, 0))
                   old == entries[name]
               IN /\ stores' = IF old # NoHandle /\ linux_drop_unlinks(old)
                                THEN [created EXCEPT ![old.store].linked = FALSE]
                                ELSE created
                  /\ REGISTRY' = IF old # NoHandle
                                  THEN [REGISTRY EXCEPT ![name] = NoEntry]
                                  ELSE [REGISTRY EXCEPT ![name] =
                                           [store |-> path, capacity |-> 0]]
                  /\ entries' = [entries EXCEPT ![name] =
                                    Region(name, path, capacity, FALSE)]
            /\ written' = Append(written, NoWrite)
            /\ COUNTER' = COUNTER + 1
            /\ last' = Outcome("create_buffer", TRUE, "", 0, 0)
    /\ ManagerFrame

\* MemioManager::create_buffer on Android: create_shared_region, then the
\* capacity goes into buffers; the non-owning region create returned is dropped
AndroidCreateBuffer(name, capacity) ==
    /\ platform = "android" /\ ~ub
    /\ IF capacity = 0 THEN ManagerFailed("create_buffer", "InvalidCapacity")
       ELSE /\ COUNTER < MaxCreates
            /\ LET ptr == COUNTER + 1
                   mem == write_header_ptr(ZeroBuf(HEADER_SIZE + capacity), 0, 0)
               IN /\ stores' = Append(android_drop_owner(stores, REGISTRY[name]),
                                      FreshStore(name, mem, 0))
                  /\ REGISTRY' = [REGISTRY EXCEPT ![name] =
                                     [store |-> ptr, capacity |-> capacity]]
                  /\ entries' = [entries EXCEPT ![name] =
                                    Region(name, ptr, capacity, FALSE)]
            /\ written' = Append(written, NoWrite)
            /\ COUNTER' = COUNTER + 1
            /\ last' = Outcome("create_buffer", TRUE, "", 0, 0)
    /\ ManagerFrame

\* MemioManager::create_buffer on Windows: create_shared_region keeps the
\* region's handle in ACTIVE_REGIONS and forgets the region (no Drop)
WindowsCreateBuffer(name, capacity) ==
    /\ platform = "windows" /\ ~ub
    /\ COUNTER < MaxCreates
    /\ LET mapping_name == COUNTER + 1
           zeroed == ZeroBuf(HEADER_SIZE + capacity)
           view == WithHeaderSlice(zeroed,
                       write_header_unchecked(HeaderSlice(zeroed), 0, 0))
       IN /\ stores' = Append(stores, FreshStore(name, view, 1))
          /\ REGISTRY' = [REGISTRY EXCEPT ![name] =
                             [store |-> mapping_name, capacity |-> capacity]]
          /\ entries' = [entries EXCEPT ![name] =
                            Region(name, mapping_name, capacity, TRUE)]
    /\ written' = Append(written, NoWrite)
    /\ COUNTER' = COUNTER + 1
    /\ last' = Outcome("create_buffer", TRUE, "", 0, 0)
    /\ ManagerFrame

\* Variant: on Linux the manager looks the region up in the factory's table
ManagerRegionByFactory(name) ==
    IF REGISTRY[name] = NoEntry THEN NoHandle
    ELSE Region(name, REGISTRY[name].store,
                BufLen(stores[REGISTRY[name].store].bytes) - HEADER_SIZE, FALSE)

\* the region a manager call on name works on and the capacity it uses:
\* registry.get(name) on Linux, REGISTRY.get(name) on Android, on Windows
\* ACTIVE_REGIONS.get(name) or else the region WindowsSharedMemoryRegion::open
\* maps
ManagerRegion(name) ==
    CASE platform = "linux" -> entries[name]
      [] platform = "android" ->
            IF REGISTRY[name] = NoEntry THEN NoHandle
            ELSE Region(name, REGISTRY[name].store, REGISTRY[name].capacity, TRUE)
      [] OTHER ->
            IF entries[name] # NoHandle THEN entries[name]
            ELSE IF REGISTRY[name] = NoEntry \/ stores[REGISTRY[name].store].refs = 0
            THEN NoHandle
            ELSE Region(name, REGISTRY[name].store, REGISTRY[name].capacity, FALSE)

\* the error of a call on a name the platform cannot resolve: on Windows the
\* helper's String error is wrapped in Io
ManagerNotFound == IF platform = "windows" THEN "Io" ELSE "NotFound"

\* MemioManager::write
ManagerWrite(name, version, data) ==
    /\ ~ub
    /\ LET region == ManagerRegion(name)
       IN IF region = NoHandle THEN ManagerFailed("write", ManagerNotFound)
          ELSE LET r == region_write(platform, stores[region.store].bytes,
                                     region.capacity, version, data)
               IN /\ stores' = [stores EXCEPT ![region.store].bytes = r.buf]
                  /\ written' = IF r.ok
                                THEN [written EXCEPT ![region.store] =
                                         [version |-> version, data |-> data]]
                                ELSE written
                  /\ last' = [op |-> "write", ok |-> r.ok,
                              err |-> IF ~r.ok /\ platform = "windows" THEN "Io"
                                      ELSE r.err,
                              h |-> 0, len |-> Len(data),
                              info |-> IF r.ok
                                       THEN [version |-> version, length |-> Len(data),
                                             capacity |-> 0]
                                       ELSE NoInfo,
                              was |-> NoHandle]
                  /\ UNCHANGED <<REGISTRY, COUNTER, entries>>
    /\ ManagerFrame

NoRead == [ok |-> FALSE, err |-> "", version |-> 0, data |-> <<>>]

\* MemioManager::read: info() for the version, then read() for the data
ManagerRead(name) ==
    LET region == ManagerRegion(name)
    IN IF region = NoHandle THEN [NoRead EXCEPT !.err = ManagerNotFound]
       ELSE LET buf == stores[region.store].bytes
                info == region_info(platform, buf, region.capacity)
                data == region_read(platform, buf, region.capacity)
            IN IF ~info.ok THEN [NoRead EXCEPT !.err = info.err]
               ELSE IF ~data.ok THEN [NoRead EXCEPT !.err = data.err]
               ELSE [ok |-> TRUE, err |-> "", version |-> info.info.version,
                     data |-> data.data]

\* MemioManager::version: info().version on Linux, the version read_from_shared
\* returns on Android, get_version on Windows
ManagerVersion(name) ==
    LET region == ManagerRegion(name)
    IN IF region = NoHandle THEN [NoRead EXCEPT !.err = ManagerNotFound]
       ELSE IF platform = "android" THEN ManagerRead(name)
       ELSE LET info == region_info(platform, stores[region.store].bytes,
                                    region.capacity)
            IN IF ~info.ok THEN [NoRead EXCEPT !.err = info.err]
               ELSE [ok |-> TRUE, err |-> "", version |-> info.info.version,
                     data |-> <<>>]

\* the writes a manager's caller makes
ManagerWrites == LifecycleWrites \cup {<<0, <<>>>>, <<1, <<17>>>>}

NextManager ==
    \/ \E name \in Names, capacity \in Capacities : LinuxCreateBuffer(name, capacity)
    \/ \E name \in Names, capacity \in Capacities : AndroidCreateBuffer(name, capacity)
    \/ \E name \in Names, capacity \in Capacities : WindowsCreateBuffer(name, capacity)
    \/ \E name \in Names, w \in ManagerWrites : ManagerWrite(name, w[1], w[2])

SpecManager == Init /\ [][NextManager]_vars

----------------------------------------------------------------------------
(* MemioManager::wait_for_change on one thread, writes through the same    *)
(* manager on another.  Time passes in ticks, at any point of the loop;    *)
(* thread::sleep(d) ends d ticks after it began.                           *)

MaxTimeout == 2
MaxInterval == 2

\* the polls of one call are counted up to MaxPolls
MaxPolls == 3

\* the clock stops once every wait_for_change call has returned
MaxTime == MaxTimeout + MaxInterval + 1

WaitFrame ==
    UNCHANGED <<platform, stores, REGISTRY, handles, COUNTER, last, ub, written,
                writer, reader, published, entries, extraVars>>

\* Variant: the loop looks at the deadline before it looks at the version
wait_decision_deadline_first(current, last_version, elapsed, timeout) ==
    IF elapsed >= timeout THEN "timeout"
    ELSE IF current # last_version THEN "read"
    ELSE "sleep"

\* Variant: the loop gives up two ticks after the deadline
wait_decision_late(current, last_version, elapsed, timeout) ==
    IF current # last_version THEN "read"
    ELSE IF elapsed >= timeout + 2 THEN "timeout"
    ELSE "sleep"

\* one round of the loop: current != last_version, start.elapsed() >= timeout
wait_decision(current, last_version, elapsed, timeout) ==
    IF current # last_version THEN "read"
    ELSE IF elapsed >= timeout THEN "timeout"
    ELSE "sleep"

\* wait_for_change is called: let start = Instant::now()
WaitBegin(name, last_version, timeout, poll_interval) ==
    /\ wait = Idle
    /\ wait' = [pc |-> "poll", name |-> name, last_version |-> last_version,
                timeout |-> timeout, poll_interval |-> poll_interval,
                start |-> now, polls |-> 0, at |-> now, seen |-> 0,
                wake |-> 0, result |-> NoRead, some |-> FALSE]
    /\ now' = now
    /\ WaitFrame

\* self.version(name)?, then the two tests of the loop
WaitPoll ==
    /\ wait.pc = "poll"
    /\ LET current == ManagerVersion(wait.name)
           polled == [wait EXCEPT !.polls = IF @ < MaxPolls THEN @ + 1 ELSE @]
       IN IF ~current.ok
          THEN wait' = [polled EXCEPT !.pc = "failed", !.result = current]
          ELSE LET d == wait_decision(current.version, wait.last_version,
                                      now - wait.start, wait.timeout)
               IN wait' = [polled EXCEPT
                              !.seen = current.version,
                              !.pc = IF d = "timeout" THEN "done"
                                     ELSE IF d = "sleep" /\ wait.poll_interval = 0
                                     THEN "poll"
                                     ELSE d,
                              !.at = IF d = "sleep" /\ wait.poll_interval = 0
                                     THEN now ELSE @,
                              !.wake = now + wait.poll_interval]
    /\ now' = now
    /\ WaitFrame

\* return Ok(Some(self.read(name)?))
WaitRead ==
    /\ wait.pc = "read"
    /\ LET r == ManagerRead(wait.name)
       IN wait' = [wait EXCEPT !.pc = IF r.ok THEN "done" ELSE "failed",
                               !.result = r, !.some = r.ok]
    /\ now' = now
    /\ WaitFrame

\* a tick of the clock; std::thread::sleep(poll_interval) returns with the
\* tick that completes the interval and the next round starts (a sleep of
\* zero returns at once, in WaitPoll)
Tick ==
    /\ wait.pc \in {"poll", "read", "sleep"}
    /\ now < MaxTime
    /\ now' = now + 1
    /\ wait' = IF wait.pc = "sleep" /\ now + 1 >= wait.wake
               THEN [wait EXCEPT !.pc = "poll", !.at = now + 1]
               ELSE wait
    /\ WaitFrame

\* the writes the other thread makes while the call waits
WaitWrites == {<<0, <<>>>>, <<1, <<34>>>>}

WaitStep == WaitPoll \/ WaitRead

NextWait ==
    \/ COUNTER = 0 /\ LinuxCreateBuffer("a", 1)
    \/ COUNTER = 0 /\ AndroidCreateBuffer("a", 1)
    \/ COUNTER = 0 /\ WindowsCreateBuffer("a", 1)
    \/ \E w \in WaitWrites :
           wait.pc \in {"poll", "read", "sleep"} /\ ManagerWrite("a", w[1], w[2])
    \/ \E last_version \in {w[1] : w \in WaitWrites}, timeout \in 0..MaxTimeout,
          poll_interval \in 0..MaxInterval :
           WaitBegin("a", last_version, timeout, poll_interval)
    \/ WaitPoll
    \/ WaitRead
    \/ Tick

\* the waiting thread is scheduled, and time does not stand still
SpecWait == Init /\ [][NextWait]_vars /\ WF_vars(WaitStep) /\ WF_vars(Tick)

----------------------------------------------------------------------------
(* Views of a handle used by the properties                                *)

HandleBuf(slot) == stores[handles[slot].store].bytes

Info(slot) == region_info(platform, HandleBuf(slot), handles[slot].capacity)

Read(slot) == region_read(platform, HandleBuf(slot), handles[slot].capacity)

HeaderVersion(buf) == read_u64_le(buf, SHARED_STATE_VERSION_OFFSET)

HeaderLength(buf) == read_u64_le(buf, SHARED_STATE_LENGTH_OFFSET)

HeaderMagic(buf) == read_u64_le(buf, SHARED_STATE_MAGIC_OFFSET)

StoreCapacity(s) == BufLen(stores[s].bytes) - HEADER_SIZE

----------------------------------------------------------------------------
(* Properties of a single writer (SpecWrites)                              *)

\* C1: a write(v, data) with Len(data) <= capacity succeeds, and as long as
\* no other write intervenes read() through the handle returns exactly data
\* (no stale tail of an earlier longer write) and info() reports the
\* version v, the length Len(data) and the handle's capacity.
C1_WriteThenReadAndInfo ==
    /\ (last.op = "write" /\ last.len <= handles[last.h].capacity) =>
           /\ last.ok
           /\ last.info = [version |-> written[handles[last.h].store].version,
                           length |-> last.len,
                           capacity |-> handles[last.h].capacity]
    /\ \A slot \in Slots :
           Live(slot) =>
               LET w == written[handles[slot].store]
               IN /\ Read(slot) = ReadOk(w.data)
                  /\ Info(slot) = InfoOk([version |-> w.version,
                                          length |-> Len(w.data)],
                                         handles[slot].capacity)

\* a write of one byte has succeeded over an earlier two-byte payload whose
\* second byte is still in the payload area
C1_Witness ==
    /\ last.op = "write" /\ last.ok /\ last.len = 1
    /\ handles[last.h].capacity = 2
    /\ HandleBuf(last.h)[HEADER_SIZE + 1] \in ByteVals
    /\ written[handles[last.h].store].version = MaxVersion

\* C6: a write of exactly capacity bytes succeeds, a write of capacity + 1
\* bytes (or more) fails with DataTooLarge carrying the data length and the
\* capacity, and a failed write stores nothing: every byte of every region,
\* header and payload, is what it was.
C6_WriteBoundary ==
    [][last'.op = "write" =>
          LET h == handles[last'.h]
          IN IF last'.len <= h.capacity
             THEN last'.ok
             ELSE /\ ~last'.ok
                  /\ last'.err = "DataTooLarge"
                  /\ last'.info.length = last'.len
                  /\ last'.info.capacity = h.capacity
                  /\ stores' = stores]_vars

\* a write of capacity + 1 bytes has failed on a region that holds an earlier
\* write of exactly capacity bytes
C6_Witness ==
    /\ last.op = "write" /\ ~last.ok
    /\ last.len = handles[last.h].capacity + 1
    /\ Len(written[handles[last.h].store].data) = handles[last.h].capacity
    /\ handles[last.h].capacity > 0

\* C9: over successive successful writes with caller-chosen versions the
\* version stored in a region's header never decreases.
C9_VersionNeverDecreases ==
    [][\A s \in 1..Len(stores) :
          ~U64Gt(HeaderVersion(stores[s].bytes),
                 U64ToNat(HeaderVersion(stores'[s].bytes)))]_vars

----------------------------------------------------------------------------
(* Properties of one writer and one unsynchronized reader (SpecConc)       *)

HeaderLanded == writer.pc = "storing" /\ ~({<<"version", 0>>, <<"length", 0>>} \subseteq writer.pending)

PayloadPending == writer.pc = "storing" /\ writer.pending \cap PayloadStores(writer.data) # {}

ReaderHasData == reader.pc \in {"info2", "done"} /\ reader.rv >= 1

\* C2: in a write the header stores of version and length happen only after
\* every payload byte has been stored; hence, with a single writer and no
\* later write started, a reader whose header load returned version V holds,
\* after its copy, exactly the data that was written with V.
C2_HeaderStoredAfterPayload ==
    /\ HeaderLanded => ~PayloadPending
    /\ (ReaderHasData /\ Len(published) = reader.rv) =>
           reader.buf = published[reader.rv]

\* C3: a reader that loads version V, copies the payload and loads version V
\* again has copied exactly the data the writer published with V, the writer
\* publishing strictly increasing versions.
C3_SameVersionMeansUntorn ==
    (reader.pc = "done" /\ reader.rv >= 1
        /\ reader.v1 = reader.rv /\ reader.v2 = reader.rv) =>
        reader.buf = published[reader.rv]

\* C7: in every state, the intermediate states of a write included, the
\* length stored in a region's header is at most the region's capacity, and
\* so is the length any reader has loaded; from creation until the first
\* accepted write starts storing (failed writes may come before it), the
\* stored length and version are both 0.
C7_LengthWithinCapacity ==
    /\ \A s \in 1..Len(stores) :
           /\ ~U64Gt(HeaderLength(stores[s].bytes), StoreCapacity(s))
           /\ published = <<>> =>
                  /\ HeaderLength(stores[s].bytes) = U64(0)
                  /\ HeaderVersion(stores[s].bytes) = U64(0)
    /\ reader.pc \in {"copy", "info2", "done"} =>
           reader.len <= handles[ReaderSlot].capacity

\* a write of exactly capacity bytes is in progress, its length store has
\* landed and payload stores have not, after an earlier write had failed
C7_Witness ==
    /\ writer.pc = "storing"
    /\ <<"length", 0>> \notin writer.pending
    /\ PayloadPending
    /\ Len(writer.data) = handles[WriterSlot].capacity
    /\ last.op = "write" /\ ~last.ok

\* C8: from the moment create returns, the magic stored in a region's header
\* equals the sentinel SHARED_STATE_MAGIC in every state, whatever writes
\* run or fail.
C8_MagicNeverChanges ==
    \A s \in 1..Len(stores) : HeaderMagic(stores[s].bytes) = SHARED_STATE_MAGIC

\* the second write is in progress with its version stored and its magic
\* store still to land, a secondary handle being open on the region
C8_Witness ==
    /\ writer.pc = "storing" /\ writer.version = 2
    /\ <<"version", 0>> \notin writer.pending
    /\ <<"magic", 0>> \in writer.pending
    /\ Live(ReaderSlot)

----------------------------------------------------------------------------
(* Properties of the handle lifecycle (Spec)                               *)

\* the region in store s can still be found and used
Registered(s) == \E name \in Names : REGISTRY[name].store = s

LiveRegion(s) ==
    /\ stores[s].linked /\ stores[s].mapped
    /\ platform = "windows" => stores[s].refs > 0
    /\ Registered(s)

\* destroying the handle tears the region down
Releases(h) ==
    CASE platform = "linux" -> linux_drop_unlinks(h)
      [] platform = "android" -> android_drop_unmaps(h)
      [] OTHER -> windows_drop_retires(h)

\* the handles on store s whose destruction tears it down; on Android the
\* owning region is the one REGISTRY holds
ReleasingSlots(s) ==
    {slot \in Slots : Live(slot) /\ handles[slot].store = s /\ Releases(handles[slot])}

RegistryOwners(s) ==
    IF platform = "android" THEN {name \in Names : REGISTRY[name].store = s} ELSE {}

\* C4: dropping a handle obtained from open(name) while the creating handle
\* is alive releases only that handle's mapping: the backing storage is not
\* unlinked or closed and the name stays in the factory's table, so that
\* the creating handle and later open(name) calls keep working.
C4_SecondaryDropKeepsRegion ==
    [][(/\ last'.op = "drop" /\ handles' # handles
        /\ last'.was.origin = "open"
        /\ \E slot \in Slots : /\ handles'[slot].origin = "create"
                                /\ handles'[slot].store = last'.was.store)
       => /\ REGISTRY' = REGISTRY
          /\ stores'[last'.was.store].linked = stores[last'.was.store].linked
          /\ stores'[last'.was.store].mapped = stores[last'.was.store].mapped
          /\ platform = "windows" => stores'[last'.was.store].refs > 0]_vars

\* C5: in every state each live region has exactly one handle whose
\* destruction releases the region's backing storage; every other handle
\* on the region releases only its own mapping.
C5_ExactlyOneOwner ==
    \A s \in 1..Len(stores) :
        LiveRegion(s) =>
            Cardinality(ReleasingSlots(s)) + Cardinality(RegistryOwners(s)) = 1

\* C10: a handle obtained from open(name) has the capacity the region was
\* created with, and info() and read() through it return the version, the
\* length and the bytes of the most recent write that has returned.
C10_OpenSeesCreatorsRegion ==
    \A slot \in Slots :
        (Live(slot) /\ handles[slot].origin = "open" /\ Mapped(handles[slot])) =>
            LET h == handles[slot]
                w == written[h.store]
            IN /\ h.capacity = StoreCapacity(h.store)
               /\ Info(slot) = InfoOk([version |-> w.version, length |-> Len(w.data)],
                                     h.capacity)
               /\ Read(slot) = ReadOk(w.data)

\* open(name) has just returned a handle on a region whose creator wrote
\* two bytes with version 2 before the call
C10_Witness ==
    /\ last.op = "open" /\ last.ok
    /\ written[handles[last.h].store] = [version |-> 2, data |-> <<17, 34>>]
    /\ \E slot \in Slots : /\ handles[slot].origin = "create"
                            /\ handles[slot].store = handles[last.h].store

----------------------------------------------------------------------------
(* Properties of the manager (SpecManager)                                 *)

\* C11: through the manager a newly created buffer has version 0, and after
\* every successful write(name, v, d), whatever writes came before, the
\* version of the buffer is v and read(name) returns d together with v.
C11_ManagerWriteThenRead ==
    /\ \A name \in Names :
           entries[name] # NoHandle =>
               LET w == written[entries[name].store]
               IN /\ ManagerVersion(name).ok
                  /\ ManagerVersion(name).version = w.version
                  /\ ManagerRead(name) = [ok |-> TRUE, err |-> "",
                                          version |-> w.version, data |-> w.data]
    /\ (last.op = "write" /\ last.ok) =>
           \E name \in Names :
               /\ entries[name] # NoHandle
               /\ written[entries[name].store].version = last.info.version
               /\ Len(written[entries[name].store].data) = last.len

\* buffer "a" was created again after it had been written, and the new
\* buffer has since been written with a lower version and fewer bytes
C11_Witness ==
    /\ last.op = "write" /\ last.ok
    /\ entries["a"] # NoHandle /\ entries["a"].store = 2
    /\ entries["b"] = NoHandle
    /\ written[1] = [version |-> 2, data |-> <<17, 34>>]
    /\ written[2] = [version |-> 1, data |-> <<34>>]

----------------------------------------------------------------------------
(* Properties of wait_for_change (SpecWait)                                *)

\* C12: wait_for_change returns Some(read result) at the first poll at which
\* the version differs from last_version: such a poll is followed by the
\* read and its result is returned, also at the very first poll of a call
\* with timeout zero and at the poll after the last sleep; None is returned
\* only after a poll that found the version equal to last_version.
C12_ChangeIsReported ==
    [][/\ (wait.pc = "poll" /\ wait' # wait /\ ManagerVersion(wait.name).ok
           /\ ManagerVersion(wait.name).version # wait.last_version)
          => wait'.pc = "read"
       /\ (wait.pc = "read" /\ wait' # wait /\ ManagerRead(wait.name).ok)
          => /\ wait'.pc = "done" /\ wait'.some
             /\ wait'.result = ManagerRead(wait.name)
       /\ (wait'.pc = "done" /\ ~wait'.some)
          => wait'.seen = wait'.last_version]_vars

\* a call with a positive timeout has returned Some from the poll that
\* followed its last sleep, the deadline having passed during that sleep
C12_Witness ==
    /\ wait.pc = "done" /\ wait.some
    /\ wait.timeout > 0
    /\ wait.polls >= 2
    /\ wait.at - wait.start >= wait.timeout

\* C13: a call whose every poll finds the version equal to last_version
\* returns None; no poll starts later than one poll_interval after the
\* timeout has elapsed; and every call returns (it never blocks for ever).
C13_TimesOut ==
    /\ [](wait # Idle =>
            /\ wait.at - wait.start <= wait.timeout + wait.poll_interval
            /\ (wait.pc = "done" /\ wait.seen = wait.last_version) => ~wait.some)
    /\ (wait # Idle) ~> (wait.pc \in {"done", "failed"})

\* a call has returned None after three polls
C13_Witness ==
    /\ wait.pc = "done" /\ ~wait.some
    /\ wait.polls = MaxPolls /\ wait.timeout > 0 /\ wait.poll_interval > 0

-----------------------------------------------------------------------------
(* SharedMemoryFactory::exists and ::list, and the regions they speak of    *)

\* linux.rs: the name is registered and its file is still on disk
linux_exists(name) ==
    IF REGISTRY[name] # NoEntry THEN stores[REGISTRY[name].store].linked ELSE FALSE

linux_list == {n \in Names : REGISTRY[n] # NoEntry}

android_exists(name) == REGISTRY[name] # NoEntry

android_list == {n \in Names : REGISTRY[n] # NoEntry}

windows_exists(name) == REGISTRY[name] # NoEntry

windows_list == {n \in Names : REGISTRY[n] # NoEntry}

exists(name) ==
    CASE platform = "linux"   -> linux_exists(name)
      [] platform = "android" -> android_exists(name)
      [] platform = "windows" -> windows_exists(name)

list ==
    CASE platform = "linux"   -> linux_list
      [] platform = "android" -> android_list
      [] platform = "windows" -> windows_list

\* the owning handle of a region is still held: on Linux and Windows it is the
\* handle create returned, on Android the one the registry keeps
OwnerAlive(s) ==
    IF platform = "android" THEN stores[s].mapped
    ELSE \E slot \in Slots : /\ Live(slot)
                             /\ handles[slot].store = s
                             /\ handles[slot].origin = "create"

\* a region created under the name, not removed, its owning handle not dropped
LiveUnder(name) ==
    \E s \in 1..Len(stores) : /\ stores[s].name = name
                              /\ ~stores[s].removed
                              /\ OwnerAlive(s)

EverCreated(name) == \E s \in 1..Len(stores) : stores[s].name = name

\* the backing storage of a region is given back: the file is unlinked, the
\* shared mapping is unmapped and closed, or no handle of the mapping is open
Released(s) ==
    CASE platform = "linux"   -> ~stores[s].linked
      [] platform = "android" -> ~stores[s].mapped
      [] platform = "windows" -> stores[s].refs = 0

\* C14: at every point of every sequence of creates, opens, removes and drops
\* on one factory, exists(name) is true and list() contains name exactly while
\* a region created under name is live, and exists(name) is false for a name
\* that was never created.
C14_ExistsTracksLiveRegions ==
    \A name \in Names :
        /\ exists(name) <=> LiveUnder(name)
        /\ (name \in list) <=> LiveUnder(name)
        /\ ~EverCreated(name) => ~exists(name)

\* C15: remove(name) on a known name returns ok and afterwards exists(name)
\* is false, list() omits the name and the backing storage is released;
\* remove(name) on an unknown name returns NotFound and changes nothing.
C15_RemoveKnownAndUnknown ==
    [][\A name \in Names :
         (last'.op = "remove" /\ last'.was.name = name) =>
             IF REGISTRY[name] # NoEntry
             THEN /\ last'.ok
                  /\ ~exists(name)'
                  /\ name \notin list'
                  /\ \A s \in 1..Len(stores) :
                         REGISTRY[name].store = s => Released(s)'
             ELSE /\ ~last'.ok /\ last'.err = "NotFound"
                  /\ UNCHANGED <<stores, REGISTRY, handles, COUNTER, entries>>]_vars

-----------------------------------------------------------------------------
(* linux.rs: the orphan sweep MemioManager::new runs before it builds its   *)
(* registry.  A file name is the sequence of its characters.                *)

MaxNameLen == 2
MaxNonce == 1
MaxFiles == 2

NameChars == {"a", "_", "1"}

RECURSIVE CharSeqs(_)
CharSeqs(n) ==
    IF n = 0 THEN {<<>>}
    ELSE LET shorter == CharSeqs(n - 1)
         IN shorter \cup {Append(t, c) : t \in {u \in shorter : Len(u) = n - 1},
                                         c \in NameChars}

\* the logical names a process may pass to create: with letters, digits and
\* underscores
LogicalNames == CharSeqs(MaxNameLen)

FILE_PREFIX == <<"m", "e", "m", "i", "o", "_">>

REGISTRY_PREFIX ==
    FILE_PREFIX \o <<"s", "h", "a", "r", "e", "d", "_",
                     "r", "e", "g", "i", "s", "t", "r", "y", "_">>

BIN_SUFFIX == <<".", "b", "i", "n">>

TXT_SUFFIX == <<".", "t", "x", "t">>

DigitChars == <<"0", "1", "2", "3", "4", "5", "6", "7", "8", "9">>

\* Display of an unsigned integer
RECURSIVE to_string(_)
to_string(n) ==
    IF n < Len(DigitChars) THEN <<DigitChars[n + 1]>>
    ELSE Append(to_string(n \div Len(DigitChars)), DigitChars[(n % Len(DigitChars)) + 1])

\* format!("{}{}_{}_{}_{}.bin", FILE_PREFIX, name, pid, nonce, 0)
region_filename(name, pid, nonce) ==
    FILE_PREFIX \o name \o <<"_">> \o to_string(pid) \o <<"_">> \o to_string(nonce)
                \o <<"_">> \o to_string(0) \o BIN_SUFFIX

\* format!("memio_shared_registry_{}.txt", std::process::id())
manifest_filename(pid) == REGISTRY_PREFIX \o to_string(pid) \o TXT_SUFFIX

starts_with(str, prefix) ==
    Len(str) >= Len(prefix) /\ SubSeq(str, 1, Len(prefix)) = prefix

ends_with(str, suffix) ==
    Len(str) >= Len(suffix) /\ SubSeq(str, Len(str) - Len(suffix) + 1, Len(str)) = suffix

\* str.split(sep).collect(): the parts between the separators, empty ones too
RECURSIVE split(_, _)
split(str, sep) ==
    IF \A i \in 1..Len(str) : str[i] # sep THEN <<str>>
    ELSE LET i == CHOOSE j \in 1..Len(str) :
                      str[j] = sep /\ \A l \in 1..(j - 1) : str[l] # sep
         IN <<SubSeq(str, 1, i - 1)>> \o split(SubSeq(str, i + 1, Len(str)), sep)

None == -1

IsDigit(c) == \E d \in 1..Len(DigitChars) : DigitChars[d] = c

DigitValue(c) == (CHOOSE d \in 1..Len(DigitChars) : DigitChars[d] = c) - 1

RECURSIVE digits_value(_)
digits_value(str) ==
    IF str = <<>> THEN 0
    ELSE digits_value(SubSeq(str, 1, Len(str) - 1)) * Len(DigitChars)
         + DigitValue(str[Len(str)])

\* every string of up to this many digits is a u32; no part of a file name of
\* the model is longer, so u32's overflow is out of reach
MaxDigits == Len(DigitChars) - 1

\* str.parse::<u32>().ok(): an optional plus sign, then one or more digits
parse_u32(str) ==
    LET body == IF Len(str) > 0 /\ str[1] = "+" THEN Tail(str) ELSE str
    IN IF \/ Len(body) = 0
          \/ Len(body) > MaxDigits
          \/ \E i \in 1..Len(body) : ~IsDigit(body[i])
       THEN None
       ELSE digits_value(body)

\* variant: the PID taken as the third part from the front
extract_pid_from_front(filename) ==
    IF starts_with(filename, REGISTRY_PREFIX) /\ ends_with(filename, TXT_SUFFIX)
    THEN parse_u32(SubSeq(filename, Len(REGISTRY_PREFIX) + 1,
                          Len(filename) - Len(TXT_SUFFIX)))
    ELSE IF ends_with(filename, BIN_SUFFIX)
         THEN LET parts == split(filename, "_")
              IN IF Len(parts) >= 5 THEN parse_u32(parts[3]) ELSE None
         ELSE None

extract_pid_from_filename(filename) ==
    IF starts_with(filename, REGISTRY_PREFIX) /\ ends_with(filename, TXT_SUFFIX)
    THEN parse_u32(SubSeq(filename, Len(REGISTRY_PREFIX) + 1,
                          Len(filename) - Len(TXT_SUFFIX)))
    ELSE IF ends_with(filename, BIN_SUFFIX)
         THEN LET parts == split(filename, "_")
              IN IF Len(parts) >= 5 THEN parse_u32(parts[Len(parts) - 2]) ELSE None
         ELSE None

is_process_running(pid) == pid \in alive

\* a file of /dev/shm; logical and pid record what its name was formatted from
RegionFile(name, pid, nonce) ==
    [filename |-> region_filename(name, pid, nonce), kind |-> "region",
     logical |-> name, pid |-> pid]

ManifestFile(pid) ==
    [filename |-> manifest_filename(pid), kind |-> "manifest",
     logical |-> <<>>, pid |-> pid]

SweepFrame ==
    UNCHANGED <<platform, stores, REGISTRY, handles, COUNTER, last, ub, written,
                writer, reader, published, entries, wait, now, arenaVars,
                stateVars, codecVars, lockVars,
                registryVars, guardVars,
                ringVars>>

\* a running process creates a region (generate_path + open_or_create)
CreateRegionFile(name, pid, nonce) ==
    /\ pid \in alive
    /\ Cardinality(shm) < MaxFiles
    /\ RegionFile(name, pid, nonce) \notin shm
    /\ shm' = shm \cup {RegionFile(name, pid, nonce)}
    /\ swept' = NoSweep
    /\ UNCHANGED alive
    /\ SweepFrame

\* a running process writes its manifest (SharedRegistry::write_manifest)
WriteManifestFile(pid) ==
    /\ pid \in alive
    /\ Cardinality(shm) < MaxFiles
    /\ ManifestFile(pid) \notin shm
    /\ shm' = shm \cup {ManifestFile(pid)}
    /\ swept' = NoSweep
    /\ UNCHANGED alive
    /\ SweepFrame

\* another process ends without deleting its files
ProcessExits(pid) ==
    /\ pid \in alive /\ pid # SelfPid
    /\ alive' = alive \ {pid}
    /\ swept' = NoSweep
    /\ UNCHANGED shm
    /\ SweepFrame

\* a process starts, under a PID that is free
ProcessStarts(pid) ==
    /\ pid \notin alive
    /\ alive' = alive \cup {pid}
    /\ swept' = NoSweep
    /\ UNCHANGED shm
    /\ SweepFrame

\* every memio_* file whose name yields a PID that is not running is removed
cleanup_orphaned_files ==
    /\ platform = "linux"
    /\ LET orphaned == {f \in shm :
                           /\ starts_with(f.filename, FILE_PREFIX)
                           /\ extract_pid_from_filename(f.filename) # None
                           /\ ~is_process_running(extract_pid_from_filename(f.filename))}
       IN /\ shm' = shm \ orphaned
          /\ swept' = [n |-> 1, deleted |-> orphaned]
    /\ UNCHANGED alive
    /\ SweepFrame

NextSweep ==
    \/ \E name \in LogicalNames, pid \in Pids, nonce \in 0..MaxNonce :
           CreateRegionFile(name, pid, nonce)
    \/ \E pid \in Pids : WriteManifestFile(pid)
    \/ \E pid \in Pids : ProcessExits(pid)
    \/ \E pid \in Pids : ProcessStarts(pid)
    \/ cleanup_orphaned_files

SpecSweep == Init /\ [][NextSweep]_vars

\* C16: after the orphan sweep of the manager's construction every region
\* file and every manifest whose embedded PID names no running process is
\* deleted, whatever the logical name (underscores included), and no file
\* whose PID names a running process (the current one included) is deleted.
C16_SweepDeletesExactlyOrphans ==
    [][swept'.n > 0 =>
          /\ shm' \subseteq shm
          /\ \A f \in shm : (f \notin shm') <=> (f.pid \notin alive)]_vars

\* a sweep deleted the region file of an ended process whose logical name
\* has an underscore and kept such a file of the current process
C16_Witness ==
    /\ swept.n > 0
    /\ \E f \in swept.deleted :
           /\ f.kind = "region" /\ f.pid \notin alive
           /\ \E i \in 1..Len(f.logical) : f.logical[i] = "_"
    /\ \E g \in shm :
           /\ g.kind = "region" /\ g.pid = SelfPid
           /\ \E i \in 1..Len(g.logical) : g.logical[i] = "_"

-----------------------------------------------------------------------------
(* memio-core/src/arena.rs: the bump allocator                               *)
(*                                                                           *)
(* A usize is an integer in two's complement: n >= 0 stands for itself and   *)
(* n < 0 for 2^64 + n, so that the values near either end of the range, the  *)
(* wrap between them and the bit operations on them are exact.               *)

MaxArena == 2
MaxBase == 2
MaxCalls == 2

USIZE_MAX == -1

\* the alignment Arena::new asks of the global allocator
BASE_ALIGN == 16

\* unsigned a < b
ult(a, b) == IF (a < 0) = (b < 0) THEN a < b ELSE b < 0

\* unsigned a <= b
ule(a, b) == a = b \/ ult(a, b)

\* a + b does not fit a usize
add_overflows(a, b) == (a < 0 /\ b < 0) \/ ((a < 0) # (b < 0) /\ a + b >= 0)

\* a - b is below zero
sub_overflows(a, b) == ult(a, b)

\* a & b
RECURSIVE bitand(_, _)
bitand(a, b) ==
    IF a = 0 \/ b = 0 THEN 0
    ELSE IF a = USIZE_MAX THEN b
    ELSE IF b = USIZE_MAX THEN a
    ELSE 2 * bitand(a \div 2, b \div 2) + (a % 2) * (b % 2)

\* !a
bitnot(a) == USIZE_MAX - a

\* the capacities, base addresses, sizes and alignments of the model
ArenaCapacities == 1..MaxArena

Bases == {BASE_ALIGN * k : k \in 1..MaxBase}

ArenaSizes == {1, 2, USIZE_MAX}

ArenaAligns == {1, 2, 2 * BASE_ALIGN}

\* (current + align - 1) & !(align - 1), wrapping
align_up(current, align) == bitand(current + align - 1, bitnot(align - 1))

\* one of the additions or subtractions of alloc leaves the range of usize:
\* a panic where the build checks overflow, a wrapped value where it does not
alloc_overflows(current, size, align) ==
    \/ add_overflows(current, align)
    \/ sub_overflows(current + align, 1)
    \/ sub_overflows(align, 1)
    \/ add_overflows(align_up(current, align), size)

ArenaFrame ==
    UNCHANGED <<platform, stores, REGISTRY, handles, COUNTER, last, ub, written,
                writer, reader, published, entries, wait, now, sweepVars,
                stateVars, codecVars, lockVars,
                registryVars, guardVars,
                ringVars>>

\* alloc returns: its locals are gone, the caller has the result
Returned(a, result) ==
    [NotAllocating EXCEPT !.calls = a.calls, !.result = result]

\* Arena::new(capacity): the slab comes from the global allocator, at any
\* address that is a multiple of 16
ArenaNew(capacity, base, overflow_checks) ==
    /\ ~arena.built
    /\ capacity > 0
    /\ arena' = [built |-> TRUE, base |-> base, capacity |-> capacity,
                 offset |-> 0, overflow_checks |-> overflow_checks]
    /\ UNCHANGED <<allocating, allocated>>
    /\ ArenaFrame

\* a thread calls alloc(size, align)
AllocBegin(t, size, align) ==
    /\ arena.built
    /\ allocating[t].pc = "idle"
    /\ allocating[t].calls < MaxCalls
    /\ allocating' = [allocating EXCEPT ![t] =
                         [NotAllocating EXCEPT !.pc = "load", !.size = size,
                                               !.align = align,
                                               !.calls = allocating[t].calls + 1]]
    /\ UNCHANGED <<arena, allocated>>
    /\ ArenaFrame

\* offset.load, the rounding and the capacity test
AllocLoad(t) ==
    /\ allocating[t].pc = "load"
    /\ LET a == allocating[t]
           current == arena.offset
           aligned == align_up(current, a.align)
           new_offset == aligned + a.size
       IN allocating' = [allocating EXCEPT ![t] =
              IF arena.overflow_checks /\ alloc_overflows(current, a.size, a.align)
              THEN Returned(a, [kind |-> "panic", addr |-> 0])
              ELSE IF ult(arena.capacity, new_offset)
              THEN Returned(a, [kind |-> "none", addr |-> 0])
              ELSE [a EXCEPT !.pc = "cas", !.current = current,
                             !.aligned = aligned, !.new_offset = new_offset]]
    /\ UNCHANGED <<arena, allocated>>
    /\ ArenaFrame

\* compare_exchange_weak succeeds: the offset moves and the address is returned
AllocCas(t) ==
    /\ allocating[t].pc = "cas"
    /\ arena.offset = allocating[t].current
    /\ LET a == allocating[t]
           ptr == arena.base + a.aligned
       IN /\ arena' = [arena EXCEPT !.offset = a.new_offset]
          /\ allocating' = [allocating EXCEPT ![t] =
                 Returned(a, IF ptr = 0 THEN [kind |-> "none", addr |-> 0]
                             ELSE [kind |-> "some", addr |-> ptr])]
          /\ allocated' = IF ptr = 0 THEN allocated
                          ELSE allocated \cup {[thread |-> t, call |-> a.calls,
                                                addr |-> ptr, size |-> a.size,
                                                align |-> a.align]}
    /\ ArenaFrame

\* compare_exchange_weak fails, because the offset moved or spuriously: retry
AllocCasFails(t) ==
    /\ allocating[t].pc = "cas"
    /\ allocating' = [allocating EXCEPT ![t].pc = "load"]
    /\ UNCHANGED <<arena, allocated>>
    /\ ArenaFrame

\* reset(): offset.store(0); the caller has given up every allocation
ArenaReset ==
    /\ arena.built
    /\ arena' = [arena EXCEPT !.offset = 0]
    /\ allocated' = {}
    /\ UNCHANGED allocating
    /\ ArenaFrame

used == arena.offset

arena_capacity == arena.capacity

NextArena ==
    \/ \E c \in ArenaCapacities, base \in Bases, checks \in BOOLEAN :
           ArenaNew(c, base, checks)
    \/ \E t \in Threads, size \in ArenaSizes, align \in ArenaAligns :
           AllocBegin(t, size, align)
    \/ \E t \in Threads : AllocLoad(t)
    \/ \E t \in Threads : AllocCas(t)
    \/ \E t \in Threads : AllocCasFails(t)
    \/ ArenaReset

SpecArena == Init /\ [][NextArena]_vars

\* the bytes of an allocation lie in the slab
InsideSlab(a) ==
    /\ a.size >= 0
    /\ arena.base <= a.addr
    /\ a.addr + a.size <= arena.base + arena.capacity

\* two allocations share no byte
Disjoint(a, b) ==
    \/ a.size = 0
    \/ b.size = 0
    \/ a.size > 0 /\ a.addr + a.size <= b.addr
    \/ b.size > 0 /\ b.addr + b.size <= a.addr

\* C17: under any interleaving of concurrent alloc calls with no reset in
\* between, the byte ranges [address, address + size) of the successful
\* allocations are pairwise disjoint and lie inside [base, base + capacity).
C17_AllocationsDisjointInSlab ==
    \A a \in allocated :
        /\ InsideSlab(a)
        /\ \A b \in allocated : a # b => Disjoint(a, b)

IsPowerOfTwo(n) == n > 0 /\ bitand(n, n - 1) = 0

\* C18: for every power-of-two align, alignments above 16 included, and every
\* size that fits, the address alloc returns is a multiple of align.
C18_AddressIsAligned ==
    \A a \in allocated : IsPowerOfTwo(a.align) => a.addr % a.align = 0

\* the request fits the slab from the offset the call worked from
Fits(current, size, align) ==
    /\ ~alloc_overflows(current, size, align)
    /\ ule(align_up(current, align) + size, arena_capacity)

\* C19: in every reachable state used() <= capacity(); between two resets
\* used() never decreases under any interleaving of concurrent allocs; an
\* alloc that does not fit returns none and leaves used() unchanged; reset()
\* sets used() to zero.
C19_UsedBoundedAndMonotonic ==
    /\ [](arena.built => ule(used, arena_capacity))
    /\ [][/\ (allocating' # allocating) => ule(used, used')
          /\ (allocating' = allocating) => used' = 0
          /\ \A t \in Threads :
                 (allocating[t].pc # "idle" /\ allocating'[t].pc = "idle") =>
                     LET a == allocating[t]
                         current == IF a.pc = "load" THEN used ELSE a.current
                     IN ~Fits(current, a.size, a.align) =>
                            /\ allocating'[t].result.kind = "none"
                            /\ used' = used]_vars

-----------------------------------------------------------------------------
(* memio-core/src/state.rs: the state container                              *)
(*                                                                           *)
(* The closure of write stores one of the Values; the serializer is a       *)
(* function of the value whose output length depends on it.  The version is *)
(* a u64 that the calls of the model cannot wrap.                            *)

MaxStateCalls == 2

Values == ByteVals

\* the alignment serialize_into asks of the arena
SERIALIZE_ALIGN == 8

\* serialize_value: the bytes of the archived value
serialize_value(value) ==
    IF \A v \in Values : value <= v THEN <<value>> ELSE <<value, value>>

\* variant: the counter is read back without being advanced
fetch_add_nothing(version) == version

\* version.fetch_add(1, SeqCst) + 1
fetch_add(version) == version + 1

\* the region a MemioState may be bound to, as write leaves it
BoundRegion(capacity) ==
    [some |-> TRUE, capacity |-> capacity, version |-> 0, data |-> <<>>]

StateFrame ==
    UNCHANGED <<platform, stores, REGISTRY, handles, COUNTER, last, ub, written,
                writer, reader, published, entries, wait, now, sweepVars,
                codecVars, lockVars,
                registryVars, guardVars,
                ringVars>>

Ok(version, bytes) ==
    [kind |-> "ok", err |-> "", version |-> version, bytes |-> bytes, hit |-> FALSE]

Err(e) == [kind |-> "err", err |-> e, version |-> 0, bytes |-> <<>>, hit |-> FALSE]

\* variant: the cache keeps the vector it handed out, without the clone
Cached_moved(version, bytes) == [some |-> TRUE, version |-> version, bytes |-> <<>>]

\* Some((version, bytes.clone())), the entry the cache keeps
Cached(version, bytes) == [some |-> TRUE, version |-> version, bytes |-> bytes]

\* variant: any cached entry is served, whatever its version
cache_hit_any_version(cache, current_version) == cache.some

\* the cache holds an entry and *cached_version == current_version
cache_hit(cache, current_version) ==
    cache.some /\ cache.version = current_version

\* a call returns: its locals are gone, the caller has the result
CallReturned(c, result) ==
    [NotCalling EXCEPT !.calls = c.calls, !.result = result, !.late = c.late]

CanCall(t) ==
    /\ mstate.built
    /\ calling[t].pc = "idle"
    /\ calling[t].calls < MaxStateCalls

Called(t, op, pc) ==
    [NotCalling EXCEPT !.op = op, !.pc = pc, !.calls = calling[t].calls + 1,
                       !.late = mstate.poisoned]

\* bookkeeping of a step of write: the calls in progress are no longer clean
Disturbed(c) == [c EXCEPT !.clean = FALSE, !.after = NoPrev]

AfterWriteStep(t, c) ==
    [u \in Threads |-> IF u = t THEN c ELSE Disturbed(calling[u])]

WriteStepped(h) == [h EXCEPT !.prev = NoPrev]

WriteActive == \E t \in Threads : calling[t].op = "write" /\ calling[t].pc # "idle"

\* bookkeeping of a return of to_bytes_cached
Answered(c, result) ==
    [history EXCEPT !.prev = [some |-> c.clean, kind |-> result.kind,
                              version |-> result.version, bytes |-> result.bytes]]

\* MemioState::new(value), or new_with_region(value, region)
StateNew(value, region) ==
    /\ ~mstate.built
    /\ mstate' = [NoState EXCEPT !.built = TRUE, !.value = value, !.region = region]
    /\ history' = [NoHistory EXCEPT !.held = <<value>>]
    /\ UNCHANGED <<calling, arenaVars>>
    /\ StateFrame

\* a thread calls write(f)
StateWriteBegin(t) ==
    /\ CanCall(t)
    /\ calling' = AfterWriteStep(t, Called(t, "write", "lock"))
    /\ history' = WriteStepped(history)
    /\ UNCHANGED <<mstate, arenaVars>>
    /\ StateFrame

\* self.inner.write()?: the exclusive lock, or LockPoisoned
StateWriteLock(t) ==
    /\ calling[t].pc = "lock"
    /\ mstate.writer = 0
    /\ IF mstate.poisoned
       THEN /\ calling' = AfterWriteStep(t, CallReturned(calling[t], Err("LockPoisoned")))
            /\ UNCHANGED mstate
       ELSE /\ calling' = AfterWriteStep(t, [calling[t] EXCEPT !.pc = "f",
                                                                !.entry = mstate.version])
            /\ mstate' = [mstate EXCEPT !.writer = t]
    /\ history' = WriteStepped(history)
    /\ UNCHANGED arenaVars
    /\ StateFrame

\* f(&mut *guard) returns
StateWriteClosure(t, value) ==
    /\ calling[t].pc = "f"
    /\ mstate' = [mstate EXCEPT !.value = value]
    /\ calling' = AfterWriteStep(t, [calling[t] EXCEPT !.pc = "inc"])
    /\ history' = WriteStepped(history)
    /\ UNCHANGED arenaVars
    /\ StateFrame

\* f panics, before or after it stored a value: the guard is dropped while
\* unwinding, which poisons the lock
StateWriteClosurePanics(t, value) ==
    /\ calling[t].pc = "f"
    /\ mstate' = [mstate EXCEPT !.writer = 0, !.poisoned = TRUE, !.value = value]
    /\ calling' = AfterWriteStep(t, CallReturned(calling[t],
                                                 [NoReturn EXCEPT !.kind = "panicked"]))
    /\ history' = WriteStepped(history)
    /\ UNCHANGED arenaVars
    /\ StateFrame

\* let version = self.version.fetch_add(1, SeqCst) + 1
StateWriteFetchAdd(t) ==
    /\ calling[t].pc = "inc"
    /\ mstate' = [mstate EXCEPT !.version = fetch_add(mstate.version)]
    /\ calling' = AfterWriteStep(t, [calling[t] EXCEPT
                                        !.pc = "sync",
                                        !.version = fetch_add(mstate.version)])
    /\ history' = [WriteStepped(history) EXCEPT
                       !.obtained = Append(@, fetch_add(mstate.version)),
                       !.held = Append(@, mstate.value)]
    /\ UNCHANGED arenaVars
    /\ StateFrame

\* the rest of write: serialize, cache and stamp the region if one is bound,
\* drop the cache if none is; then the guards are released
StateWriteSync(t) ==
    /\ calling[t].pc = "sync"
    /\ LET version == calling[t].version
           bytes == serialize_value(mstate.value)
           region == mstate.region
       IN IF region.some
          THEN IF TooLarge(bytes, region.capacity)
               THEN /\ mstate' = [mstate EXCEPT
                                     !.cache = Cached(version, bytes),
                                     !.writer = 0]
                    /\ calling' = AfterWriteStep(t, CallReturned(calling[t],
                                                                 Err("DataTooLarge")))
               ELSE /\ mstate' = [mstate EXCEPT
                                     !.cache = Cached(version, bytes),
                                     !.region = [region EXCEPT !.version = version,
                                                               !.data = bytes],
                                     !.writer = 0]
                    /\ calling' = AfterWriteStep(t, CallReturned(calling[t],
                                                                 Ok(version, <<>>)))
          ELSE /\ mstate' = [mstate EXCEPT !.cache = NoCache, !.writer = 0]
               /\ calling' = AfterWriteStep(t, CallReturned(calling[t],
                                                            Ok(version, <<>>)))
    /\ history' = [WriteStepped(history) EXCEPT !.completed = @ + 1]
    /\ UNCHANGED arenaVars
    /\ StateFrame

\* read(f): the shared lock, f, release
StateRead(t) ==
    /\ CanCall(t)
    /\ mstate.writer = 0
    /\ calling' = [calling EXCEPT ![t] =
           CallReturned(Called(t, "read", "idle"),
                        IF mstate.poisoned THEN Err("LockPoisoned")
                        ELSE Ok(0, <<mstate.value>>))]
    /\ UNCHANGED <<mstate, history, arenaVars>>
    /\ StateFrame

\* to_bytes(): the shared lock, serialize_value, release
to_bytes ==
    IF mstate.poisoned THEN Err("LockPoisoned")
    ELSE Ok(0, serialize_value(mstate.value))

ToBytes(t) ==
    /\ CanCall(t)
    /\ mstate.writer = 0
    /\ calling' = [calling EXCEPT ![t] =
                      CallReturned(Called(t, "to_bytes", "idle"), to_bytes)]
    /\ UNCHANGED <<mstate, history, arenaVars>>
    /\ StateFrame

\* to_bytes_cached(): let current_version = self.version()
ToBytesCachedBegin(t) ==
    /\ CanCall(t)
    /\ calling' = [calling EXCEPT ![t] =
                      [Called(t, "to_bytes_cached", "cache")
                           EXCEPT !.version = mstate.version,
                                  !.clean = ~WriteActive,
                                  !.after = history.prev]]
    /\ UNCHANGED <<mstate, history, arenaVars>>
    /\ StateFrame

\* the cache is consulted under its read lock
ToBytesCachedLookup(t) ==
    /\ calling[t].pc = "cache"
    /\ calling' = [calling EXCEPT ![t] =
           IF cache_hit(mstate.cache, @.version)
           THEN CallReturned(@, [Ok(@.version, mstate.cache.bytes) EXCEPT !.hit = TRUE])
           ELSE [@ EXCEPT !.pc = "fill"]]
    /\ history' = IF cache_hit(mstate.cache, calling[t].version)
                  THEN Answered(calling[t], Ok(calling[t].version, mstate.cache.bytes))
                  ELSE history
    /\ UNCHANGED <<mstate, arenaVars>>
    /\ StateFrame

\* a miss: self.to_bytes()?
ToBytesCachedFill(t) ==
    /\ calling[t].pc = "fill"
    /\ mstate.writer = 0
    /\ calling' = [calling EXCEPT ![t] =
           IF to_bytes.kind = "err" THEN CallReturned(@, to_bytes)
           ELSE [@ EXCEPT !.pc = "store", !.bytes = to_bytes.bytes]]
    /\ history' = IF to_bytes.kind = "err" THEN Answered(calling[t], to_bytes)
                  ELSE history
    /\ UNCHANGED <<mstate, arenaVars>>
    /\ StateFrame

\* the cache is filled under its write lock and the pair is returned
ToBytesCachedStore(t) ==
    /\ calling[t].pc = "store"
    /\ mstate' = [mstate EXCEPT !.cache = Cached(calling[t].version, calling[t].bytes)]
    /\ calling' = [calling EXCEPT ![t] = CallReturned(@, Ok(@.version, @.bytes))]
    /\ history' = Answered(calling[t], Ok(calling[t].version, calling[t].bytes))
    /\ UNCHANGED arenaVars
    /\ StateFrame

\* serialize_into(arena): to_bytes, then arena.alloc(len, 8) and the copy
SerializeInto(t) ==
    /\ CanCall(t)
    /\ arena.built
    /\ mstate.writer = 0
    /\ LET c == Called(t, "serialize_into", "idle")
           len == Len(to_bytes.bytes)
           aligned == align_up(used, SERIALIZE_ALIGN)
           new_offset == aligned + len
       IN IF to_bytes.kind = "err"
          THEN /\ calling' = [calling EXCEPT ![t] = CallReturned(c, to_bytes)]
               /\ UNCHANGED arenaVars
          ELSE IF ult(arena_capacity, new_offset)
          THEN /\ calling' = [calling EXCEPT ![t] = CallReturned(c, Err("ArenaFull"))]
               /\ UNCHANGED arenaVars
          ELSE /\ calling' = [calling EXCEPT ![t] =
                                 CallReturned(c, Ok(arena.base + aligned,
                                                    to_bytes.bytes))]
               /\ arena' = [arena EXCEPT !.offset = new_offset]
               /\ allocated' = allocated \cup
                                   {[thread |-> t, call |-> c.calls,
                                     addr |-> arena.base + aligned,
                                     size |-> len, align |-> SERIALIZE_ALIGN]}
               /\ UNCHANGED allocating
    /\ UNCHANGED <<mstate, history>>
    /\ StateFrame

\* the regions a state is bound to in the model: none, or one of a capacity
\* that holds the shorter serialization only
StateRegions == {NoRegion, BoundRegion(1)}

NextState ==
    \/ \E value \in Values, region \in StateRegions : StateNew(value, region)
    \/ /\ ArenaNew(MaxArena, BASE_ALIGN, FALSE)
       /\ ~mstate.built
    \/ \E t \in Threads : StateWriteBegin(t)
    \/ \E t \in Threads : StateWriteLock(t)
    \/ \E t \in Threads, value \in Values : StateWriteClosure(t, value)
    \/ \E t \in Threads, value \in Values : StateWriteClosurePanics(t, value)
    \/ \E t \in Threads : StateWriteFetchAdd(t)
    \/ \E t \in Threads : StateWriteSync(t)
    \/ \E t \in Threads : StateRead(t)
    \/ \E t \in Threads : ToBytes(t)
    \/ \E t \in Threads : ToBytesCachedBegin(t)
    \/ \E t \in Threads : ToBytesCachedLookup(t)
    \/ \E t \in Threads : ToBytesCachedFill(t)
    \/ \E t \in Threads : ToBytesCachedStore(t)
    \/ \E t \in Threads : SerializeInto(t)

SpecState == Init /\ [][NextState]_vars

state_version == mstate.version

\* the writes that have taken their version and have not returned yet
Stamping == {t \in Threads : calling[t].pc = "sync"}

\* C20: every completed write(f) raises version() by exactly one: after N
\* completed writes from any number of concurrent threads version() = N, no
\* two writes obtain the same version, and read, to_bytes, to_bytes_cached
\* and serialize_into never change it.
C20_WriteRaisesVersionByOne ==
    /\ [](/\ state_version = history.completed + Cardinality(Stamping)
          /\ \A i, j \in 1..Len(history.obtained) :
                 i # j => history.obtained[i] # history.obtained[j])
    /\ [][state_version' # state_version =>
             /\ state_version' = state_version + 1
             /\ \E t \in Threads : /\ calling[t].op = "write"
                                   /\ calling[t].pc = "inc"
                                   /\ calling'[t].pc = "sync"]_vars

\* two threads have each completed a write, the second stamped version two,
\* next to a thread that served to_bytes_cached
C20_Witness ==
    /\ history.completed = MaxThreads
    /\ state_version = MaxThreads
    /\ \A t \in Threads : calling[t].calls > 0 /\ calling[t].pc = "idle"
    /\ \E t \in Threads : calling[t].result.kind = "ok" /\ calling[t].result.bytes # <<>>

\* the value the container held when its version became v
ValueAt(v) == history.held[v + 1]

ReturnsCached(t) ==
    /\ calling[t].op = "to_bytes_cached"
    /\ calling[t].pc # "idle"
    /\ calling'[t].pc = "idle"

\* C22: two consecutive to_bytes_cached calls with no write between them
\* return the same version and byte-identical bytes, whether or not a region
\* is bound and whether the first call hit the cache or filled it.
C22_ConsecutiveCachedCallsAgree ==
    [][\A t \in Threads :
           (/\ ReturnsCached(t) /\ calling[t].clean
            /\ calling[t].after.some /\ calling[t].after.kind = "ok"
            /\ calling'[t].result.kind = "ok") =>
               /\ calling'[t].result.version = calling[t].after.version
               /\ calling'[t].result.bytes = calling[t].after.bytes]_vars

\* a second call has answered from the cache what the first call filled in,
\* with a region bound
C22_Witness ==
    \E t \in Threads :
        /\ calling[t].result.hit
        /\ history.prev.some /\ history.prev.kind = "ok"
        /\ calling[t].calls = MaxStateCalls
        /\ mstate.region.some

\* the thread's write returns from its region sync in this step
ReturnsFromSync(t) ==
    /\ calling[t].op = "write"
    /\ calling[t].pc = "sync"
    /\ calling'[t].pc = "idle"

C24_PoisonedAnswersOnlyErrors ==
    /\ [](\A t \in Threads :
              (calling[t].late /\ calling[t].pc = "idle") =>
                  calling[t].result = Err("LockPoisoned"))
    /\ [][mstate.poisoned => state_version' = state_version]_vars

\* SharedMemoryFactory::create of the platform the process runs on
create(name, capacity) ==
    \/ LinuxCreate(name, capacity)
    \/ AndroidCreate(name, capacity)
    \/ WindowsCreate(name, capacity)

\* C25: create with capacity zero fails with InvalidCapacity on every
\* platform, leaves the name unregistered and allocates no backing storage.
C25_ZeroCapacityIsRejected ==
    [][\A name \in Names :
           create(name, 0) =>
               /\ ~last'.ok
               /\ last'.err = "InvalidCapacity"
               /\ REGISTRY' = REGISTRY
               /\ stores' = stores]_vars

----------------------------------------------------------------------------
(* Opening regions whose header another process has overwritten: the       *)
(* backing file or mapping is shared memory, which every process that maps *)
(* it can store to                                                         *)

\* the values a peer leaves in the magic field: zero, the sentinel with its
\* bytes reversed, the sentinel itself
PeerMagics ==
    {U64(0), [i \in 1..8 |-> SHARED_STATE_MAGIC[9 - i]], SHARED_STATE_MAGIC}

\* a process that maps the region stores eight bytes at the magic offset
PeerStoresMagic(path, magic) ==
    /\ ~ub
    /\ path \in 1..Len(stores)
    /\ stores[path].linked /\ stores[path].mapped
    /\ stores' = [stores EXCEPT ![path].bytes =
                     write_u64_le(@, SHARED_STATE_MAGIC_OFFSET, magic)]
    /\ UNCHANGED <<REGISTRY, handles, COUNTER, last, written>>
    /\ LifecycleFrame

\* SharedMemoryFactory::open of the platform the process runs on
open(name) ==
    \/ LinuxOpen(name)
    \/ AndroidOpen(name)
    \/ WindowsOpen(name)

NextOpen ==
    \/ \E name \in Names, capacity \in Capacities : LinuxCreate(name, capacity)
    \/ \E name \in Names, capacity \in Capacities : AndroidCreate(name, capacity)
    \/ \E name \in Names, capacity \in Capacities : WindowsCreate(name, capacity)
    \/ \E name \in Names : LinuxOpen(name)
    \/ \E name \in Names : AndroidOpen(name)
    \/ \E name \in Names : WindowsOpen(name)
    \/ \E path \in 1..MaxCreates, magic \in PeerMagics : PeerStoresMagic(path, magic)

SpecOpen == Init /\ [][NextOpen]_vars

\* the region registered under the name is there, and its stored magic is not
\* the sentinel
BadMagic(name) ==
    /\ REGISTRY[name] # NoEntry
    /\ stores[REGISTRY[name].store].linked
    /\ stores[REGISTRY[name].store].mapped
    /\ read_u64_le(stores[REGISTRY[name].store].bytes, SHARED_STATE_MAGIC_OFFSET)
           # SHARED_STATE_MAGIC

\* C26: open(name) on a registered region whose stored magic is zero, or
\* anything else than the sentinel, fails with InvalidHeader and returns no
\* handle.
C26_OpenRejectsBadMagic ==
    [][\A name \in Names :
           (BadMagic(name) /\ open(name)) =>
               /\ ~last'.ok
               /\ last'.err = "InvalidHeader"
               /\ handles' = handles]_vars

----------------------------------------------------------------------------
(* memio-core/src/shared_header.rs: the header functions on a buffer of any *)
(* length and content.  The buffer is filled with a byte, single bytes of   *)
(* the header fields are stored to, and write_header, read_header and       *)
(* validate_magic are called in any order.                                  *)

\* buffers one byte short of a header, of a header alone, of a header and a
\* payload area
BufferLens == {HEADER_SIZE - 1, HEADER_SIZE, HEADER_SIZE + MaxCapacity}

FillBytes == {0, 255}

\* the first byte of the magic, the last of the version, the first of the
\* length
FieldEnds == {SHARED_STATE_MAGIC_OFFSET, SHARED_STATE_VERSION_OFFSET + 7,
              SHARED_STATE_LENGTH_OFFSET}

\* u64::MAX
U64_MAX == <<255, 255, 255, 255, 255, 255, 255, 255>>

\* versions of every width: a small one, 0x0102030405060708, u64::MAX
HeaderVersions == {U64(MaxVersion), <<1, 2, 3, 4, 5, 6, 7, 8>>, U64_MAX}

HeaderLengths == 0..(MaxCapacity + 1)

CodecFrame ==
    UNCHANGED <<platform, stores, REGISTRY, handles, COUNTER, last, ub, written,
                writer, reader, published, entries, wait, now, sweepVars,
                arenaVars, stateVars, lockVars,
                registryVars, guardVars,
                ringVars>>

\* vec![fill; len]
BufferNew(len, fill) ==
    /\ ~codec.built
    /\ codec' = [NoBuffer EXCEPT !.built = TRUE,
                                 !.buf = [i \in 0..(len - 1) |-> fill],
                                 !.op = "new"]
    /\ CodecFrame

\* buf[i] = b
StoreByte(i, b) ==
    /\ codec.built
    /\ i \in DOMAIN codec.buf
    /\ codec.buf[i] # b
    /\ codec' = [NoBuffer EXCEPT !.built = TRUE,
                                 !.buf = [codec.buf EXCEPT ![i] = b],
                                 !.op = "store"]
    /\ CodecFrame

CodecWriteHeader(version, length) ==
    /\ codec.built
    /\ LET r == write_header(codec.buf, version, length)
       IN codec' = [NoBuffer EXCEPT !.built = TRUE, !.buf = r.buf,
                                    !.op = "write_header", !.ok = r.ok,
                                    !.version = version, !.length = length]
    /\ CodecFrame

CodecReadHeader(capacity) ==
    /\ codec.built
    /\ LET r == read_header_u64(codec.buf, capacity)
       IN codec' = [NoBuffer EXCEPT !.built = TRUE, !.buf = codec.buf,
                                    !.op = "read_header", !.ok = r.some,
                                    !.version = IF r.some THEN r.version ELSE <<>>,
                                    !.length = r.length,
                                    !.capacity = capacity]
    /\ CodecFrame

CodecValidateMagic ==
    /\ codec.built
    /\ codec' = [NoBuffer EXCEPT !.built = TRUE, !.buf = codec.buf,
                                 !.op = "validate_magic",
                                 !.ok = validate_magic(codec.buf)]
    /\ CodecFrame

NextCodec ==
    \/ \E len \in BufferLens, fill \in FillBytes : BufferNew(len, fill)
    \/ \E i \in FieldEnds, b \in FillBytes : StoreByte(i, b)
    \/ \E version \in HeaderVersions, length \in HeaderLengths :
           CodecWriteHeader(version, length)
    \/ \E capacity \in Capacities : CodecReadHeader(capacity)
    \/ CodecValidateMagic

SpecCodec == Init /\ [][NextCodec]_vars

\* C27: for every buffer of at least HEADER_SIZE bytes, every version v and
\* every length n <= capacity, read_header(buf, capacity) right after
\* write_header(buf, v, n) returns exactly (v, n), whatever the buffer held
\* before.
C27_HeaderRoundTrip ==
    [][(/\ codec.op = "write_header"
        /\ BufLen(codec.buf) >= HEADER_SIZE
        /\ codec'.op = "read_header"
        /\ codec.length <= codec'.capacity) =>
           /\ codec.ok
           /\ codec'.ok
           /\ codec'.version = codec.version
           /\ codec'.length = codec.length]_vars

\* u64::MAX and the longest length have come back from a buffer that was
\* filled with 0xFF before
C27_Witness ==
    /\ codec.op = "read_header"
    /\ codec.ok
    /\ codec.version = U64_MAX
    /\ codec.length = MaxCapacity
    /\ codec.buf[HEADER_SIZE - 1] = 255

\* the buffer has a whole header, and its first eight bytes are the bytes of
\* 0x545552424F534852 from the least significant to the most
StartsWithMagic(buf) ==
    /\ BufLen(buf) >= HEADER_SIZE
    /\ \A i \in 0..7 : buf[i] = <<82, 72, 83, 79, 66, 82, 85, 84>>[i + 1]

\* C28: validate_magic(buf) is true exactly when buf has at least HEADER_SIZE
\* bytes and its first eight bytes, read little-endian, equal the magic; an
\* all-zero header is rejected, and read_header rejects it too.
C28_ValidateMagicExactly ==
    /\ codec.op = "validate_magic" => (codec.ok <=> StartsWithMagic(codec.buf))
    /\ (codec.op = "read_header" /\ codec.ok) => StartsWithMagic(codec.buf)
    /\ (/\ codec.op \in {"validate_magic", "read_header"}
        /\ \A i \in DOMAIN codec.buf : i < HEADER_SIZE => codec.buf[i] = 0) =>
           ~codec.ok

\* validate_magic has refused a header of sixty-four zero bytes
C28_Witness ==
    /\ codec.op = "validate_magic"
    /\ ~codec.ok
    /\ BufLen(codec.buf) = HEADER_SIZE
    /\ \A i \in DOMAIN codec.buf : codec.buf[i] = 0

----------------------------------------------------------------------------
(* MemioManager::write and MemioManager::read called from several threads: *)
(* each call takes the lock (self.registry on Linux, REGISTRY on Android,   *)
(* ACTIVE_REGIONS on Windows), works on the region store by store and load  *)
(* by load, and releases the lock when it returns.                          *)

MaxManagerCalls == 2

\* Variant: the lock is handed out while another thread holds it
lock_available_always(holder) == TRUE

\* Mutex::lock returns once no thread holds the lock
lock_available(holder) == holder = 0

LockedFrame ==
    UNCHANGED <<platform, REGISTRY, handles, COUNTER, last, ub, written, writer,
                reader, published, entries, wait, now, sweepVars, arenaVars,
                stateVars, codecVars,
                registryVars, guardVars,
                ringVars>>

ManagerResult(op, ok, err, store, version, data) ==
    [op |-> op, ok |-> ok, err |-> err, store |-> store, version |-> version,
     data |-> data]

ManagerReturned(t, result) ==
    [NotManaging EXCEPT !.calls = managing[t].calls + 1, !.result = result]

CanManage(t) ==
    /\ ~ub
    /\ managing[t].pc = "idle"
    /\ managing[t].calls < MaxManagerCalls
    /\ lock_available(mutex)

\* on Windows a name that ACTIVE_REGIONS does not hold is worked on after
\* drop(active), through a mapping of its own
HoldsLock(name) == platform = "windows" => entries[name] # NoHandle

Unlocked(t) == IF mutex = t THEN 0 ELSE mutex

\* write: the lock, the lookup, the capacity check
LockedWriteBegin(t, name, version, data) ==
    /\ CanManage(t)
    /\ LET region == ManagerRegion(name)
       IN IF region = NoHandle
          THEN /\ managing' = [managing EXCEPT ![t] = ManagerReturned(t,
                                  ManagerResult("write", FALSE, ManagerNotFound, 0, 0, <<>>))]
               /\ UNCHANGED <<mutex, issued>>
          ELSE IF TooLarge(data, region.capacity)
          THEN /\ managing' = [managing EXCEPT ![t] = ManagerReturned(t,
                                  ManagerResult("write", FALSE,
                                      IF platform = "windows" THEN "Io" ELSE "DataTooLarge",
                                      region.store, 0, <<>>))]
               /\ UNCHANGED <<mutex, issued>>
          ELSE /\ managing' = [managing EXCEPT ![t] =
                                  [@ EXCEPT !.op = "write", !.pc = "storing",
                                            !.store = region.store,
                                            !.capacity = region.capacity,
                                            !.version = version, !.data = data,
                                            !.pending = WriteStores(data)]]
               /\ mutex' = IF HoldsLock(name) THEN t ELSE mutex
               /\ issued' = issued \cup {<<region.store, version, data>>}
    /\ UNCHANGED stores
    /\ LockedFrame

\* one store of the write reaches the shared pages
LockedWriteStore(t, st) ==
    /\ managing[t].pc = "storing"
    /\ st \in managing[t].pending
    /\ MayLand(platform, st, managing[t].pending)
    /\ stores' = [stores EXCEPT ![managing[t].store].bytes =
                     ApplyStore(@, st, managing[t].version, managing[t].data)]
    /\ managing' = [managing EXCEPT ![t].pending = @ \ {st}]
    /\ UNCHANGED <<mutex, issued>>
    /\ LockedFrame

\* write returns Ok(WriteResult) and the guard is dropped
LockedWriteEnd(t) ==
    /\ managing[t].pc = "storing"
    /\ managing[t].pending = {}
    /\ managing' = [managing EXCEPT ![t] = ManagerReturned(t,
                       ManagerResult("write", TRUE, "", managing[t].store,
                                     managing[t].version, managing[t].data))]
    /\ mutex' = Unlocked(t)
    /\ UNCHANGED <<stores, issued>>
    /\ LockedFrame

\* read: the lock and the lookup
LockedReadBegin(t, name) ==
    /\ CanManage(t)
    /\ LET region == ManagerRegion(name)
       IN IF region = NoHandle
          THEN /\ managing' = [managing EXCEPT ![t] = ManagerReturned(t,
                                  ManagerResult("read", FALSE, ManagerNotFound, 0, 0, <<>>))]
               /\ UNCHANGED mutex
          ELSE /\ managing' = [managing EXCEPT ![t] =
                                  [@ EXCEPT !.op = "read", !.pc = "info",
                                            !.store = region.store,
                                            !.capacity = region.capacity]]
               /\ mutex' = IF HoldsLock(name) THEN t ELSE mutex
    /\ UNCHANGED <<stores, issued>>
    /\ LockedFrame

\* region.info(), on Windows read_header: the load of the header
LockedReadInfo(t) ==
    /\ managing[t].pc = "info"
    /\ LET info == region_info(platform, stores[managing[t].store].bytes,
                               managing[t].capacity)
       IN IF ~info.ok
          THEN /\ managing' = [managing EXCEPT ![t] = ManagerReturned(t,
                                  ManagerResult("read", FALSE,
                                      IF platform = "windows" THEN "Io" ELSE info.err,
                                      managing[t].store, 0, <<>>))]
               /\ mutex' = Unlocked(t)
          ELSE /\ managing' = [managing EXCEPT ![t].pc = "read",
                                               ![t].version = info.info.version,
                                               ![t].length = info.info.length]
               /\ UNCHANGED mutex
    /\ UNCHANGED <<stores, issued>>
    /\ LockedFrame

\* region.read(), which loads the header again; on Windows the copy of the
\* length read_header returned.  Then the result and the guard is dropped
LockedReadCopy(t) ==
    /\ managing[t].pc = "read"
    /\ LET buf == stores[managing[t].store].bytes
           data == IF platform = "windows"
                   THEN ReadOk(CopyOut(buf, managing[t].length))
                   ELSE region_read(platform, buf, managing[t].capacity)
       IN managing' = [managing EXCEPT ![t] = ManagerReturned(t,
              IF data.ok
              THEN ManagerResult("read", TRUE, "", managing[t].store,
                                 managing[t].version, data.data)
              ELSE ManagerResult("read", FALSE, data.err, managing[t].store, 0, <<>>))]
    /\ mutex' = Unlocked(t)
    /\ UNCHANGED <<stores, issued>>
    /\ LockedFrame

\* one buffer "a" of any capacity, created once; each thread makes up to
\* MaxManagerCalls calls, the writes drawn from LifecycleWrites
NextLocked ==
    \/ \E capacity \in Capacities :
           COUNTER = 0 /\ lock_available(mutex) /\ LinuxCreateBuffer("a", capacity)
    \/ \E capacity \in Capacities :
           COUNTER = 0 /\ lock_available(mutex) /\ AndroidCreateBuffer("a", capacity)
    \/ \E capacity \in Capacities :
           COUNTER = 0 /\ lock_available(mutex) /\ WindowsCreateBuffer("a", capacity)
    \/ \E t \in Threads, w \in LifecycleWrites : LockedWriteBegin(t, "a", w[1], w[2])
    \/ \E t \in Threads, st \in WriteStores([i \in 1..(MaxCapacity + 1) |-> 0]) :
           LockedWriteStore(t, st)
    \/ \E t \in Threads : LockedWriteEnd(t)
    \/ \E t \in Threads : LockedReadBegin(t, "a")
    \/ \E t \in Threads : LockedReadInfo(t)
    \/ \E t \in Threads : LockedReadCopy(t)

SpecLocked == Init /\ [][NextLocked]_vars

\* C29: when all writes go through one MemioManager, manager.read(name)
\* under any thread interleaving returns a (data, version) pair that one
\* single write produced (or the empty version 0 the region was created
\* with).
C29_ReadReturnsOneWrite ==
    \A t \in Threads :
        LET r == managing[t].result
        IN (r.op = "read" /\ r.ok) =>
               \/ <<r.store, r.version, r.data>> \in issued
               \/ r.version = 0 /\ r.data = <<>>

\* a read has returned the pair of the first write while the other thread is
\* storing the second write to the same region
C29_Witness ==
    \E t, w \in Threads :
        /\ managing[t].result.op = "read" /\ managing[t].result.ok
        /\ managing[t].result.data # <<>>
        /\ managing[w].pc = "storing"
        /\ managing[w].store = managing[t].result.store
        /\ managing[w].data # managing[t].result.data
        /\ managing[w].pending # WriteStores(managing[w].data)

\* MemioManager::list_buffers: registry.list_names() on Linux, the factory's
\* table on Android and Windows
list_buffers ==
    IF platform = "linux" THEN {n \in Names : entries[n] # NoHandle} ELSE list

\* open(name) would return a region
OpenSucceeds(name) ==
    /\ REGISTRY[name] # NoEntry
    /\ CASE platform = "linux" ->
                /\ stores[REGISTRY[name].store].linked
                /\ validate_magic(stores[REGISTRY[name].store].bytes)
         [] platform = "android" -> TRUE
         [] OTHER -> stores[REGISTRY[name].store].refs > 0

\* C30: after any sequence of create_buffer calls, including two with the
\* same name, every name in list_buffers() maps to exactly one region whose
\* backing file exists, for which the factory's exists(name) is true and
\* open(name) succeeds.
C30_ListedBuffersAreOpenable ==
    \A name \in list_buffers :
        /\ ManagerRegion(name) # NoHandle
        /\ stores[ManagerRegion(name).store].linked
        /\ exists(name)
        /\ OpenSucceeds(name)

\* C31: after each successful write on a region-bound container, the bound
\* region's header version equals version() and its payload is the
\* serialization of the current value; under concurrent writers the region
\* is stamped in strictly increasing version order.
C31_RegionFollowsWrites ==
    [][\A t \in Threads :
           (/\ ReturnsFromSync(t)
            /\ mstate.region.some
            /\ calling'[t].result.kind = "ok") =>
               /\ mstate'.region.version = state_version'
               /\ mstate'.region.data = serialize_value(mstate'.value)
               /\ mstate'.region.version > mstate.region.version]_vars

\* both threads have written with success, the second stamped version two
\* over the first one's version one
C31_Witness ==
    /\ mstate.region.some
    /\ mstate.region.version = MaxThreads
    /\ mstate.region.data = serialize_value(mstate.value)
    /\ \A t \in Threads : calling[t].result.kind = "ok" /\ calling[t].pc = "idle"
    /\ history.completed = MaxThreads

----------------------------------------------------------------------------
(* registry.rs: SharedRegistry values over the Linux factory, in one       *)
(* process.  A path and the text of a file are sequences of characters.    *)

MaxRegistryCreates == 3

SHM_BASE_PATH == <<"/", "d", "e", "v", "/", "s", "h", "m">>

\* the names passed to create_buffer: any String, a line feed included
RegistryNames == {<<"a">>, <<"b">>, <<"a", "\n">>}

RegistryCapacities == {0, 1}

\* Path::join of a relative file name
join(base, filename) == base \o <<"/">> \o filename

\* Path::file_name
file_name(path) == LET parts == split(path, "/") IN parts[Len(parts)]

File(path, text) == [path |-> path, text |-> text]

path_exists(fs, path) == \E f \in fs : f.path = path

\* variant: the file stays
remove_file_nothing(fs, path) == fs

\* std::fs::remove_file
remove_file(fs, path) == {f \in fs : f.path # path}

\* std::fs::write: creates the file or replaces its text
fs_write(fs, path, text) == {f \in fs : f.path # path} \cup {File(path, text)}

\* HashMap<String, _>: a member under a name, the member that was there
\* before replaced
insert(map, name, member) == {e \in map : e.name # name} \cup {member}

RegistryEntry(name, path) == [name |-> name, path |-> path]

\* the orders in which a HashMap may yield its members
Orders(map) ==
    {o \in [1..Cardinality(map) -> map] :
        \A i, j \in 1..Cardinality(map) : o[i] = o[j] => i = j}

\* write_manifest's out: name, '=', path and '\n' for every entry in turn
RECURSIVE manifest_text(_)
manifest_text(order) ==
    IF Len(order) = 0 THEN <<>>
    ELSE Head(order).name \o <<"=">> \o Head(order).path \o <<"\n">>
         \o manifest_text(Tail(order))

\* Drop for LinuxSharedMemoryRegion of every entry: the file is removed when
\* it exists
drop_region_files(fs, map) == {f \in fs : \A e \in map : f.path # e.path}

\* Drop for LinuxSharedMemoryRegion of every entry: REGISTRY.remove(name)
drop_region_names(reg, map) == {g \in reg : \A e \in map : g.name # e.name}

RegistryFrame ==
    UNCHANGED <<platform, stores, REGISTRY, handles, ub, written, writer, reader,
                published, entries, wait, now, sweepVars, arenaVars, stateVars,
                codecVars, lockVars, guardVars,
                ringVars>>

RegistryOutcome(op, ok, err, r) == last' = Outcome(op, ok, err, r, 0)

\* SharedRegistry::new_linux
new_linux(r) ==
    /\ platform = "linux"
    /\ registries[r].state = "none"
    /\ registries' = [registries EXCEPT ![r] =
           [state |-> "alive",
            manifest_path |-> join(SHM_BASE_PATH, manifest_filename(SelfPid)),
            entries |-> {}]]
    /\ RegistryOutcome("new_linux", TRUE, "", r)
    /\ UNCHANGED <<devshm, registered, COUNTER>>
    /\ RegistryFrame

\* MemioManager::new on Linux: the orphan sweep, then new_linux
MemioManagerNew(r) ==
    /\ platform = "linux"
    /\ registries[r].state = "none"
    /\ LET orphaned ==
               {f \in devshm :
                   LET filename == file_name(f.path)
                   IN /\ starts_with(filename, FILE_PREFIX)
                      /\ extract_pid_from_filename(filename) # None
                      /\ ~is_process_running(extract_pid_from_filename(filename))}
       IN devshm' = devshm \ orphaned
    /\ registries' = [registries EXCEPT ![r] =
           [state |-> "alive",
            manifest_path |-> join(SHM_BASE_PATH, manifest_filename(SelfPid)),
            entries |-> {}]]
    /\ RegistryOutcome("new", TRUE, "", r)
    /\ UNCHANGED <<registered, COUNTER>>
    /\ RegistryFrame

\* SharedRegistry::create_buffer: the factory's create, entries.insert (the
\* entry it replaces is dropped), write_manifest
RegistryCreateBuffer(r, name, capacity) ==
    /\ platform = "linux"
    /\ registries[r].state = "alive"
    /\ COUNTER < MaxRegistryCreates
    /\ IF capacity = 0
       THEN /\ RegistryOutcome("create_buffer", FALSE, "InvalidCapacity", r)
            /\ UNCHANGED <<registryVars, COUNTER>>
       ELSE LET path == join(SHM_BASE_PATH, region_filename(name, SelfPid, COUNTER))
                replaced == {e \in registries[r].entries : e.name = name}
                map == insert(registries[r].entries, name, RegistryEntry(name, path))
                created == fs_write(devshm, path, <<>>)
            IN /\ COUNTER' = COUNTER + 1
               /\ registries' = [registries EXCEPT ![r].entries = map]
               /\ registered' =
                      drop_region_names(insert(registered, name,
                                               RegistryEntry(name, path)),
                                        replaced)
               /\ \E order \in Orders(map) :
                      devshm' = fs_write(drop_region_files(created, replaced),
                                         registries[r].manifest_path,
                                         manifest_text(order))
               /\ RegistryOutcome("create_buffer", TRUE, "", r)
    /\ RegistryFrame

\* Drop for SharedRegistry, then the drop of its fields: the manifest is
\* removed when it exists, every entry's region is dropped
RegistryDrop(r) ==
    /\ platform = "linux"
    /\ registries[r].state = "alive"
    /\ LET manifest_path == registries[r].manifest_path
           fs == IF path_exists(devshm, manifest_path)
                 THEN remove_file(devshm, manifest_path)
                 ELSE devshm
       IN devshm' = drop_region_files(fs, registries[r].entries)
    /\ registered' = drop_region_names(registered, registries[r].entries)
    /\ registries' = [registries EXCEPT ![r].state = "dropped"]
    /\ RegistryOutcome("drop", TRUE, "", r)
    /\ UNCHANGED COUNTER
    /\ RegistryFrame

NextRegistry ==
    \/ \E r \in RegistryIds : new_linux(r)
    \/ \E r \in RegistryIds : MemioManagerNew(r)
    \/ \E r \in RegistryIds, name \in RegistryNames, capacity \in RegistryCapacities :
           RegistryCreateBuffer(r, name, capacity)
    \/ \E r \in RegistryIds : RegistryDrop(r)

SpecRegistry == Init /\ [][NextRegistry]_vars

\* str::lines: the parts between line feeds, without a last empty part
lines(text) ==
    LET parts == split(text, "\n")
    IN IF parts[Len(parts)] = <<>> THEN SubSeq(parts, 1, Len(parts) - 1) ELSE parts

\* the text of the file at the registry's manifest path
ManifestText(r) ==
    (CHOOSE f \in devshm : f.path = registries[r].manifest_path).text

\* the manifest exists and its lines are one name=path per entry, no more
ListsExactly(r) ==
    /\ path_exists(devshm, registries[r].manifest_path)
    /\ LET text == lines(ManifestText(r))
       IN /\ Len(text) = Cardinality(registries[r].entries)
          /\ {text[i] : i \in 1..Len(text)} =
                 {e.name \o <<"=">> \o e.path : e \in registries[r].entries}
          /\ \A e \in registries[r].entries : path_exists(devshm, e.path)

\* C32: after every successful create_buffer on a registry the manifest file
\* holds exactly one name=path line per entry of that registry, path being
\* the backing file of the region registered under name, and no other line.
C32_ManifestListsEntries ==
    \A r \in RegistryIds :
        last = Outcome("create_buffer", TRUE, "", r, 0) => ListsExactly(r)

\* C33: once a registry (or the manager that owns it) has been destroyed,
\* its manifest file no longer exists, none of the backing files of its
\* regions exists, and the factory no longer lists any of its names.
C33_DropRemovesEverything ==
    \A r \in RegistryIds :
        last = Outcome("drop", TRUE, "", r, 0) =>
            /\ registries[r].state = "dropped"
            /\ ~path_exists(devshm, registries[r].manifest_path)
            /\ \A e \in registries[r].entries :
                   /\ ~path_exists(devshm, e.path)
                   /\ \A g \in registered : g.name # e.name

\* a registry that held two buffers and had written its manifest has just
\* been destroyed
C33_Witness ==
    \E r \in RegistryIds :
        /\ last = Outcome("drop", TRUE, "", r, 0)
        /\ registries[r].state = "dropped"
        /\ Cardinality(registries[r].entries) = 2
        /\ ~path_exists(devshm, registries[r].manifest_path)

\* the names of the registry's entries hold no line feed
PlainNames(r) ==
    \A e \in registries[r].entries : \A i \in 1..Len(e.name) : e.name[i] # "\n"

\* C38: while a registry that has created at least one buffer is alive, its
\* manifest file exists and lists exactly that registry's entries, even when
\* a second registry or manager is constructed, creates buffers or is dropped
\* in the same process.  Stated for registries whose names hold no line
\* feed, the case of C32.
C38_ManifestSurvivesOtherRegistries ==
    \A r \in RegistryIds :
        (/\ registries[r].state = "alive"
         /\ registries[r].entries # {}
         /\ PlainNames(r)) => ListsExactly(r)

----------------------------------------------------------------------------
(* memio_manager.rs: the calls of one MemioManager on names it may never   *)
(* have created                                                            *)

\* MemioManager::info: registry.get(name) and region.info() on Linux; on
\* Android and Windows buffers.get(name), then read_from_shared for the
\* version and the length (buffers and entries hold the same names here)
ManagerInfo(name) ==
    IF entries[name] = NoHandle THEN [NoRead EXCEPT !.err = "NotFound"]
    ELSE IF platform = "linux"
    THEN LET info == region_info(platform, stores[entries[name].store].bytes,
                                 entries[name].capacity)
         IN IF ~info.ok THEN [NoRead EXCEPT !.err = info.err]
            ELSE [ok |-> TRUE, err |-> "", version |-> info.info.version,
                  data |-> <<>>]
    ELSE ManagerRead(name)

\* the answer of read, version or info
ManagerAnswer(op, name) ==
    CASE op = "read" -> ManagerRead(name)
      [] op = "version" -> ManagerVersion(name)
      [] OTHER -> ManagerInfo(name)

\* MemioManager::read, version or info is called and returns
ManagerCall(op, name) ==
    /\ ~ub
    /\ LET r == ManagerAnswer(op, name)
       IN last' = [op |-> op, ok |-> r.ok, err |-> r.err, h |-> 0,
                   len |-> Len(r.data),
                   info |-> [version |-> r.version, length |-> Len(r.data),
                             capacity |-> 0],
                   was |-> NoHandle]
    /\ UNCHANGED <<stores, REGISTRY, COUNTER, written, entries>>
    /\ ManagerFrame

ManagerOps == {"read", "version", "info"}

\* one caller: its calls follow one another, wait_for_change is its last
NextCalls ==
    \/ \E name \in Names : wait = Idle /\ COUNTER = 0 /\ LinuxCreateBuffer(name, 1)
    \/ \E name \in Names : wait = Idle /\ COUNTER = 0 /\ AndroidCreateBuffer(name, 1)
    \/ \E name \in Names : wait = Idle /\ COUNTER = 0 /\ WindowsCreateBuffer(name, 1)
    \/ \E name \in Names, w \in WaitWrites :
           wait = Idle /\ ManagerWrite(name, w[1], w[2])
    \/ \E op \in ManagerOps, name \in Names : wait = Idle /\ ManagerCall(op, name)
    \/ \E name \in Names, last_version \in {w[1] : w \in WaitWrites} :
           WaitBegin(name, last_version, MaxTimeout, 1)
    \/ WaitPoll
    \/ WaitRead
    \/ Tick

SpecCalls == Init /\ [][NextCalls]_vars

\* C34: MemioManager write, read, version, info and wait_for_change called
\* with a name that was never created return the NotFound error
\* (wait_for_change at its first poll, without waiting for the timeout) and
\* leave the version, length and payload of every buffer unchanged.
C34_UnknownNameIsNotFound ==
    [][\A name \in Names :
           ~EverCreated(name) =>
               /\ (\/ \E w \in WaitWrites : ManagerWrite(name, w[1], w[2])
                   \/ \E op \in ManagerOps : ManagerCall(op, name)) =>
                      /\ ~last'.ok
                      /\ last'.err = "NotFound"
                      /\ stores' = stores
               /\ (wait.pc = "poll" /\ wait.name = name /\ WaitPoll) =>
                      /\ wait.polls = 0
                      /\ wait'.pc = "failed"
                      /\ wait'.result.err = "NotFound"
                      /\ stores' = stores]_vars

\* C35: under any interleaving with concurrent write calls the pair
\* (version, bytes) that to_bytes_cached returns is consistent: bytes is the
\* serialization of the value the container held when its version was the
\* returned version.
C35_CachedPairIsConsistent ==
    [][\A t \in Threads :
           (ReturnsCached(t) /\ calling'[t].result.kind = "ok") =>
               calling'[t].result.bytes =
                   serialize_value(ValueAt(calling'[t].result.version))]_vars

\* C36: whenever wait_for_change(name, last_version, ..) returns
\* Some(result), result.version differs from last_version and result.data is
\* the payload written with result.version, even if other threads write to
\* the buffer between the version poll and the read.
C36_WaitReturnsTheChange ==
    (wait.pc = "done" /\ wait.some) =>
        /\ wait.result.version # wait.last_version
        /\ <<wait.result.version, wait.result.data>> \in WaitWrites

----------------------------------------------------------------------------
(* state.rs: the locks the calls of a MemioState take, in the order and    *)
(* for the span the code takes them; closures return without panic.  A     *)
(* call is the sequence of its lock() and guard-drop steps.                *)

MaxLockCalls == 2

\* lock.read() / lock.write(): the call blocks until the lock is granted
Acq(lock, mode) == [step |-> "acquire", lock |-> lock, mode |-> mode]

\* the guard of the lock goes out of scope
Rel(lock) == [step |-> "drop", lock |-> lock, mode |-> "-"]

\* to_bytes: the inner read guard lives to the end of the function
to_bytes_locks == <<Acq("inner", "read"), Rel("inner")>>

\* read: the inner read guard lives to the end of the function
read_locks == <<Acq("inner", "read"), Rel("inner")>>

\* variant: the cache read guard of the lookup is held over to_bytes
to_bytes_cached_locks_guard_held(hit) ==
    <<Acq("cache", "read")>>
    \o (IF hit THEN <<Rel("cache")>>
        ELSE to_bytes_locks
             \o <<Rel("cache"), Acq("cache", "write"), Rel("cache")>>)

\* to_bytes_cached: the cache read guard ends with the if; on a miss
\* to_bytes, then the cache write guard inside its if let
to_bytes_cached_locks(hit) ==
    <<Acq("cache", "read"), Rel("cache")>>
    \o (IF hit THEN <<>>
        ELSE to_bytes_locks \o <<Acq("cache", "write"), Rel("cache")>>)

\* write: the inner write guard lives to the end; the shared_region read
\* guard is a temporary of its let statement; the cache write guard lives
\* inside its if let; the shared_region write guard to the end of the block
write_locks(bound) ==
    <<Acq("inner", "write"), Acq("shared_region", "read"), Rel("shared_region")>>
    \o (IF bound
        THEN <<Acq("cache", "write"), Rel("cache"),
               Acq("shared_region", "write"), Rel("shared_region")>>
        ELSE <<Acq("cache", "write"), Rel("cache")>>)
    \o <<Rel("inner")>>

\* shared_info: the shared_region read guard lives inside and_then
shared_info_locks == <<Acq("shared_region", "read"), Rel("shared_region")>>

\* version: an atomic load, no lock
version_locks == <<>>

LockOps == {"read", "write", "to_bytes", "to_bytes_cached", "shared_info", "version"}

locks_of(op, bound, hit) ==
    CASE op = "read" -> read_locks
      [] op = "write" -> write_locks(bound)
      [] op = "to_bytes" -> to_bytes_locks
      [] op = "to_bytes_cached" -> to_bytes_cached_locks(hit)
      [] op = "shared_info" -> shared_info_locks
      [] OTHER -> version_locks

\* std::sync::RwLock: readers share, a writer excludes
granted(lock, mode) ==
    IF mode = "read" THEN lock.writer = 0
    ELSE lock.writer = 0 /\ lock.readers = {}

locked(lock, mode, t) ==
    IF mode = "read" THEN [lock EXCEPT !.readers = @ \cup {t}]
    ELSE [lock EXCEPT !.writer = t]

dropped(lock, t) ==
    [writer |-> IF lock.writer = t THEN 0 ELSE lock.writer,
     readers |-> lock.readers \ {t}]

GuardFrame ==
    UNCHANGED <<platform, stores, REGISTRY, handles, COUNTER, last, ub, written,
                writer, reader, published, entries, wait, now, sweepVars,
                arenaVars, stateVars, codecVars, lockVars, registryVars,
                ringVars>>

\* MemioState::new or new_with_region
LocksNew(bound) ==
    /\ ~rwlocks.built
    /\ rwlocks' = [NoLocks EXCEPT !.built = TRUE, !.bound = bound]
    /\ UNCHANGED locking
    /\ GuardFrame

\* a thread calls; whether to_bytes_cached will hit depends on the cache
LockCall(t, op, hit) ==
    /\ rwlocks.built
    /\ locking[t].todo = <<>>
    /\ locking[t].calls < MaxLockCalls
    /\ locking' = [locking EXCEPT ![t] =
           [op |-> op, todo |-> locks_of(op, rwlocks.bound, hit),
            calls |-> @.calls + 1]]
    /\ UNCHANGED rwlocks
    /\ GuardFrame

\* the lock the thread asks for is granted
LockAcquire(t) ==
    /\ locking[t].todo # <<>>
    /\ LET next == Head(locking[t].todo)
       IN /\ next.step = "acquire"
          /\ granted(rwlocks[next.lock], next.mode)
          /\ rwlocks' = [rwlocks EXCEPT ![next.lock] = locked(@, next.mode, t)]
    /\ locking' = [locking EXCEPT ![t].todo = Tail(@)]
    /\ GuardFrame

\* a guard of the thread is dropped
LockDrop(t) ==
    /\ locking[t].todo # <<>>
    /\ LET next == Head(locking[t].todo)
       IN /\ next.step = "drop"
          /\ rwlocks' = [rwlocks EXCEPT ![next.lock] = dropped(@, t)]
    /\ locking' = [locking EXCEPT ![t].todo = Tail(@)]
    /\ GuardFrame

LockStep(t) == LockAcquire(t) \/ LockDrop(t)

NextLocks ==
    \/ \E bound \in BOOLEAN : LocksNew(bound)
    \/ \E t \in Threads, op \in LockOps, hit \in BOOLEAN : LockCall(t, op, hit)
    \/ \E t \in Threads : LockAcquire(t)
    \/ \E t \in Threads : LockDrop(t)

\* every thread that can take a step is scheduled
SpecLocks ==
    Init /\ [][NextLocks]_vars /\ \A t \in Threads : WF_vars(LockStep(t))

\* C37: no interleaving of concurrent read, write, to_bytes, to_bytes_cached,
\* shared_info and version calls deadlocks on the inner, cache and region
\* locks: when no closure panics, every call eventually returns.
C37_EveryCallReturns ==
    \A t \in Threads : (locking[t].todo # <<>>) ~> (locking[t].todo = <<>>)

\* a write holds the inner lock and asks for the cache lock while a
\* to_bytes_cached that missed waits for the inner lock
C37_Witness ==
    \E t, u \in Threads :
        /\ rwlocks.inner.writer = t
        /\ locking[t].op = "write"
        /\ Head(locking[t].todo) = Acq("cache", "write")
        /\ locking[u].op = "to_bytes_cached"
        /\ locking[u].todo # <<>>
        /\ Head(locking[u].todo) = Acq("inner", "read")

\* C39: on Android no live region handle ever points at an unmapped range:
\* after any sequence of create (re-creating an existing name included),
\* open, remove and handle drops, the address held by every live handle that
\* create or open returned is still mapped.
C39_LiveHandlesStayMapped ==
    platform = "android" =>
        \A slot \in Slots : Live(slot) => Mapped(handles[slot])

----------------------------------------------------------------------------
(* shared_ring.rs: one ring file, the handle that created it and a handle  *)
(* opened on its path.  Index i of data is the file's byte data_offset + i. *)

MaxRing == 2
MaxRingHead == 3

\* 0x5455_5242_4F52_494E
RING_MAGIC == <<84, 85, 82, 66, 79, 82, 73, 78>>

\* std::mem::size_of::<RingHeader>(): four u64 fields
RING_HEADER_SIZE == 32

RING_ALIGN == 64

RingCapacities == 0..MaxRing

RingData == {<<>>, <<17>>, <<17, 34>>, <<34, 17, 34>>}

RingOuts == 0..(MaxRing + 1)

min(a, b) == IF a <= b THEN a ELSE b

\* open: metadata.len() goes to open_or_create as the capacity
open_capacity(size, header) == size

RingFrame ==
    UNCHANGED <<platform, stores, REGISTRY, handles, COUNTER, last, ub, written,
                writer, reader, published, entries, wait, now, sweepVars,
                arenaVars, stateVars, codecVars, lockVars, registryVars, guardVars>>

\* open_or_create: data_offset, file_len, the header written or checked
ring_open_or_create(op, capacity, creating) ==
    LET data_offset == align_up(RING_HEADER_SIZE, RING_ALIGN)
        file_len == data_offset + capacity
    IN IF ~creating /\ ringfile.magic # RING_MAGIC
       THEN /\ ringlast' = [NoRingCall EXCEPT !.op = "invalid magic", !.h = op]
            /\ UNCHANGED <<ringfile, ringhandles>>
       ELSE /\ ringfile' = IF creating
                           THEN [exists |-> TRUE, len |-> file_len,
                                 magic |-> RING_MAGIC, capacity |-> capacity,
                                 head |-> 0, tail |-> 0,
                                 data |-> [i \in 0..(capacity - 1) |-> 0],
                                 beyond |-> FALSE]
                           ELSE ringfile
            /\ ringhandles' = [ringhandles EXCEPT ![op] =
                   [some |-> TRUE, data_offset |-> data_offset,
                    capacity |-> capacity]]
            /\ ringlast' = [NoRingCall EXCEPT !.op = op, !.h = op]

\* SharedRingBuffer::create
RingCreate(capacity) ==
    /\ ~ringfile.exists
    /\ IF capacity = 0
       THEN /\ ringlast' = [NoRingCall EXCEPT !.op = "capacity must be > 0",
                                              !.h = "create"]
            /\ UNCHANGED <<ringfile, ringhandles>>
       ELSE ring_open_or_create("create", capacity, TRUE)
    /\ RingFrame

\* SharedRingBuffer::open on the path of the created ring
RingOpen ==
    /\ ringfile.exists
    /\ ~ringhandles["open"].some
    /\ ring_open_or_create("open", open_capacity(ringfile.len, ringfile), FALSE)
    /\ RingFrame

\* the data indexes a copy of n bytes from pos on touches, in the order of
\* the bytes: first up to the handle's capacity, second from index 0
RingSpan(pos, n, capacity) ==
    LET first == min(n, capacity - pos)
    IN [i \in 1..n |-> IF i <= first THEN pos + i - 1 ELSE i - first - 1]

\* an index inside the mapped file
Inside(h, i) == ringhandles[h].data_offset + i < ringfile.len

\* SharedRingBuffer::write
RingWrite(h, data) ==
    /\ ringhandles[h].some
    /\ ~ringfile.beyond
    /\ ringfile.head < MaxRingHead
    /\ LET capacity == ringhandles[h].capacity
           head == ringfile.head
           tail == ringfile.tail
           ring_used == head - tail
           free == capacity - ring_used
           to_write == IF Len(data) = 0 \/ ring_used >= capacity THEN 0
                       ELSE min(Len(data), free)
           write_pos == head % capacity
           span == RingSpan(write_pos, to_write, capacity)
       IN /\ ringfile' = [ringfile EXCEPT
                 !.data = [i \in DOMAIN @ |->
                              IF \E k \in 1..to_write : span[k] = i
                              THEN data[CHOOSE k \in 1..to_write : span[k] = i]
                              ELSE @[i]],
                 !.beyond = \E k \in 1..to_write : ~Inside(h, span[k]),
                 !.head = head + to_write]
          /\ ringlast' = [op |-> "write", h |-> h, n |-> to_write, pos |-> write_pos,
                          touched |-> {span[k] : k \in 1..to_write}, out |-> <<>>]
    /\ UNCHANGED ringhandles
    /\ RingFrame

\* SharedRingBuffer::read into out of the given length; a byte read past
\* the end of the mapped file has no defined value
RingRead(h, out_len) ==
    /\ ringhandles[h].some
    /\ ~ringfile.beyond
    /\ LET capacity == ringhandles[h].capacity
           head == ringfile.head
           tail == ringfile.tail
           available == head - tail
           to_read == IF out_len = 0 \/ available = 0 THEN 0
                      ELSE min(out_len, available)
           read_pos == tail % capacity
           span == RingSpan(read_pos, to_read, capacity)
       IN /\ ringfile' = [ringfile EXCEPT
                 !.beyond = \E k \in 1..to_read : ~Inside(h, span[k]),
                 !.tail = tail + to_read]
          /\ \E undefined \in ByteVals :
                 ringlast' = [op |-> "read", h |-> h, n |-> to_read, pos |-> read_pos,
                              touched |-> {span[k] : k \in 1..to_read},
                              out |-> [k \in 1..to_read |->
                                          IF Inside(h, span[k])
                                          THEN ringfile.data[span[k]]
                                          ELSE undefined]]
    /\ UNCHANGED ringhandles
    /\ RingFrame

NextRing ==
    \/ \E capacity \in RingCapacities : RingCreate(capacity)
    \/ RingOpen
    \/ \E h \in RingHandles, data \in RingData : RingWrite(h, data)
    \/ \E h \in RingHandles, out_len \in RingOuts : RingRead(h, out_len)

SpecRing == Init /\ [][NextRing]_vars

\* C40: a ring buffer opened with SharedRingBuffer::open(path) on the file
\* of a ring created with capacity C reports capacity() = C and wraps its
\* writes and reads at the same positions as the creating handle, never
\* touching bytes beyond the mapped file.
C40_OpenedRingMatchesCreator ==
    ringhandles["open"].some =>
        /\ ringhandles["open"].capacity = ringhandles["create"].capacity
        /\ ringhandles["open"].capacity = ringfile.capacity
        /\ ringlast.touched \subseteq 0..(ringfile.capacity - 1)
        /\ ~ringfile.beyond

====
